---- MODULE Spec2Model ----
(***************************************************************************)
(* A model of importer/main.py: the CSV importer that shapes rows into     *)
(* FHIR transaction bundles and reconciles them against the backend.       *)
(*                                                                         *)
(* Strings are TLA+ strings.  A resource document is a record:             *)
(*   leaf                 path |-> sequence of text chunks; a placeholder  *)
(*                        token such as "$name" is one chunk, so that      *)
(*                        str.replace(token, value) is a chunk rewrite     *)
(*                        (row values are assumed to hold no "$")          *)
(*   type                 the list obj["resource"]["type"] of codings      *)
(*   participant          obj["resource"]["participant"]                   *)
(*   managingOrganization obj["resource"]["managingOrganization"]          *)
(* A Python exception is the field exc of a result ("none" when none is    *)
(* raised).                                                                *)
(***************************************************************************)
EXTENDS Integers, Sequences, FiniteSets, TLC

VARIABLES
    flow,            \* which branch of main() this run takes
    pc,              \* position of the run
    resource_type,   \* --resource_type
    resource_list,   \* the rows read_csv returned
    idx,             \* index of the next row of the loop
    unique_uuid,     \* build_payload local, kept across loop iterations
    identifier_uuid, \* build_payload local, kept across loop iterations
    version,         \* build_payload local, kept across loop iterations
    final_string,    \* the entries accumulated so far
    exc,             \* the exception that ended the run ("none" if none)
    requests,        \* the remote calls made so far, in order (the bundle POSTs are in posted)
    posted,          \* the bundles POSTed to the backend
    aux              \* what the flow keeps beside the run: the entries of an earlier run, ...

vars == <<flow, pc, resource_type, resource_list, idx, unique_uuid,
          identifier_uuid, version, final_string, exc, requests, posted, aux>>

\* ------------------------------------------------------------ bounds

\* Longest input a run of the generic flow reads.
MaxRows == 2

\* ------------------------------------------------------------ strings

\* A local variable that no assignment has reached yet.
UNBOUND == "<unbound>"

\* s[i:] of Python, 1-based.
From(s, i) == SubSeq(s, i, Len(s))

RECURSIVE lstrip(_)
lstrip(s) == IF Len(s) > 0 /\ SubSeq(s, 1, 1) = " " THEN lstrip(From(s, 2)) ELSE s

RECURSIVE rstrip(_)
rstrip(s) ==
    IF Len(s) > 0 /\ SubSeq(s, Len(s), Len(s)) = " "
    THEN rstrip(SubSeq(s, 1, Len(s) - 1)) ELSE s

\* str.strip()
strip(s) == rstrip(lstrip(s))

\* Index of the first occurrence of the one-character separator, 0 if none.
RECURSIVE find(_, _, _)
find(s, sep, i) ==
    IF i > Len(s) THEN 0
    ELSE IF SubSeq(s, i, i) = sep THEN i ELSE find(s, sep, i + 1)

\* str.split(sep): "" splits into [""].
RECURSIVE split(_, _)
split(s, sep) ==
    LET k == find(s, sep, 1)
    IN  IF k = 0 THEN <<s>>
        ELSE <<SubSeq(s, 1, k - 1)>> \o split(From(s, k + 1), sep)

\* str.split(sep, 1)
split1(s, sep) ==
    LET k == find(s, sep, 1)
    IN  IF k = 0 THEN <<s>> ELSE <<SubSeq(s, 1, k - 1), From(s, k + 1)>>

\* sep.join(parts)
RECURSIVE join(_, _)
join(parts, sep) ==
    IF Len(parts) = 0 THEN ""
    ELSE IF Len(parts) = 1 THEN parts[1]
    ELSE parts[1] \o sep \o join(Tail(parts), sep)

\* sub in s
RECURSIVE contains(_, _)
contains(s, sub) ==
    IF Len(sub) > Len(s) THEN FALSE
    ELSE IF SubSeq(s, 1, Len(sub)) = sub THEN TRUE
    ELSE contains(From(s, 2), sub)

\* str(uuid.uuid5(uuid.NAMESPACE_DNS, s)): a fixed function of s, injective
\* on s (SHA-1 is taken to be collision free).
uuid5(s) == "uuid5(" \o s \o ")"

\* The text of a leaf: its chunks concatenated.
RECURSIVE text(_)
text(chunks) == IF Len(chunks) = 0 THEN "" ELSE chunks[1] \o text(Tail(chunks))

\* ------------------------------------------------------------ documents

\* chunks.replace(token, value)
replace_chunks(chunks, token, value) ==
    [j \in DOMAIN chunks |-> IF chunks[j] = token THEN value ELSE chunks[j]]

replace_coding(c, token, value) ==
    [system  |-> c.system,
     code    |-> replace_chunks(c.code, token, value),
     display |-> replace_chunks(c.display, token, value)]

\* payload_string.replace(token, value) over a whole document.
replace(doc, token, value) ==
    [doc EXCEPT
        !.leaf = [p \in DOMAIN doc.leaf |-> replace_chunks(doc.leaf[p], token, value)],
        !.type = [j \in DOMAIN doc.type |-> replace_coding(doc.type[j], token, value)]]

\* del obj["resource"][key] for a subtree: every leaf under the paths goes.
del_leaves(doc, paths) ==
    [doc EXCEPT !.leaf = [p \in (DOMAIN doc.leaf) \ paths |-> doc.leaf[p]]]

\* del array[index], 1-based.
del_at(array, index) ==
    [j \in 1..(Len(array) - 1) |-> IF j < index THEN array[j] ELSE array[j + 1]]

\* The tokens left in a document.
is_token(chunk) == Len(chunk) > 0 /\ SubSeq(chunk, 1, 1) = "$"
tokens_of(chunks) == {chunks[j] : j \in {k \in DOMAIN chunks : is_token(chunks[k])}}

\* json_payloads/organizations_payload.json
organizations_payload ==
    [leaf |-> [url        |-> <<"Organization/", "$unique_uuid">>,
               ifMatch    |-> <<"$version">>,
               id         |-> <<"$unique_uuid">>,
               identifier |-> <<"$identifier_uuid">>,
               active     |-> <<"$active">>,
               name       |-> <<"$name">>],
     type |-> <<>>, participant |-> <<>>, managingOrganization |-> <<>>]

\* json_payloads/locations_payload.json
locations_payload ==
    [leaf |-> [url        |-> <<"Location/", "$unique_uuid">>,
               ifMatch    |-> <<"$version">>,
               id         |-> <<"$unique_uuid">>,
               identifier |-> <<"$identifier_uuid">>,
               status     |-> <<"$status">>,
               name       |-> <<"$name">>,
               partOf_reference |-> <<"Location/", "$parentID">>,
               partOf_display   |-> <<"$parentName">>,
               physicalType_code    |-> <<"$pt_code">>,
               physicalType_display |-> <<"$pt_display">>,
               position_longitude |-> <<"$longitude">>,
               position_latitude  |-> <<"$latitude">>],
     type |-> <<[system  |-> "http://terminology.hl7.org/CodeSystem/location-type",
                 code    |-> <<"$t_code">>,
                 display |-> <<"$t_display">>],
                [system  |-> "https://smartregister.org/codes/administrative-level",
                 code    |-> <<"$adminLevelCode">>,
                 display |-> <<"Level ", "$adminLevelCode">>]>>,
     participant |-> <<>>, managingOrganization |-> <<>>]

\* json_payloads/careteams_payload.json
careteams_payload ==
    [leaf |-> [url        |-> <<"CareTeam/", "$unique_uuid">>,
               ifMatch    |-> <<"$version">>,
               id         |-> <<"$unique_uuid">>,
               identifier |-> <<"$identifier_uuid">>,
               status     |-> <<"$status">>,
               name       |-> <<"$name">>],
     type |-> <<>>, participant |-> <<>>, managingOrganization |-> <<>>]

\* ------------------------------------------------------------ shapers

\* A shaper's result: the document, the exception it raised, the GETs it made.
shaped(doc, e, g) == [doc |-> doc, exc |-> e, requests |-> g]

\* organization_extras: "_, orgActive, *_ = resource" needs two fields.
organization_extras(resource, payload_string) ==
    LET orgActive == IF Len(resource) >= 2 THEN resource[2] ELSE "true"
    IN  shaped(replace(payload_string, "$active", orgActive), "none", <<>>)

\* identify_coding_object_index: the 1-based index of the first coding whose
\* system holds current_system; 0 stands for the None the loop falls off to.
RECURSIVE identify_from(_, _, _)
identify_from(array, current_system, j) ==
    IF j > Len(array) THEN 0
    ELSE IF contains(array[j].system, current_system) THEN j
    ELSE identify_from(array, current_system, j + 1)

identify_coding_object_index(array, current_system) ==
    identify_from(array, current_system, 1)

\* int(code) and str(n) on the level codes the model uses.
Digits == <<"0", "1", "2", "3", "4", "5", "6", "7", "8", "9">>
is_int(code) == \E d \in DOMAIN Digits : Digits[d] = code
int(code) == (CHOOSE d \in DOMAIN Digits : Digits[d] = code) - 1
str(n) == IF n < Len(Digits) THEN Digits[n + 1] ELSE "1" \o Digits[n - Len(Digits) + 1]

\* What the backend answers to GET Location/<parent id>, as handle_request
\* hands it on: None after a transport failure, else the body parsed:
\*   notype   a body with no "type" key (a Location without one, or the
\*            OperationOutcome of a 404)
\*   types    a Location whose "type" is the list of codings given
\*   bundle   a body whose "type" is a string (a searchset Bundle)
ParentReplies ==
    { [kind |-> "fail"], [kind |-> "notype"], [kind |-> "bundle"],
      [kind |-> "types", type |-> <<>>],
      [kind |-> "types",
       type |-> <<[system |-> "http://terminology.hl7.org/CodeSystem/location-type",
                   code |-> "bu"]>>],
      [kind |-> "types",
       type |-> <<[system |-> "http://terminology.hl7.org/CodeSystem/location-type",
                   code |-> "bu"],
                  [system |-> "https://smartregister.org/codes/administrative-level",
                   code |-> "2"]>>],
      [kind |-> "types",
       type |-> <<[system |-> "https://smartregister.org/codes/administrative-level",
                   code |-> "0"]>>] }

\* check_parent_admin_level handing the child the level of its parent as it is.
check_parent_admin_level_same(locationParentId, reply) ==
    IF reply.kind = "fail" THEN [exc |-> "TypeError", value |-> ""]
    ELSE IF reply.kind = "notype" THEN [exc |-> "none", value |-> ""]
    ELSE IF reply.kind = "bundle" THEN [exc |-> "TypeError", value |-> ""]
    ELSE LET index == identify_coding_object_index(reply.type, "administrative-level")
         IN  IF index = 0 THEN [exc |-> "TypeError", value |-> ""]
             ELSE [exc |-> "none", value |-> reply.type[index].code]

\* check_parent_admin_level: [exc, value]; value "" stands for None.
check_parent_admin_level(locationParentId, reply) ==
    IF reply.kind = "fail" THEN [exc |-> "TypeError", value |-> ""]
    ELSE IF reply.kind = "notype" THEN [exc |-> "none", value |-> ""]
    ELSE IF reply.kind = "bundle" THEN [exc |-> "TypeError", value |-> ""]
    ELSE LET index == identify_coding_object_index(reply.type, "administrative-level")
         IN  IF index = 0 THEN [exc |-> "TypeError", value |-> ""]
             ELSE IF ~is_int(reply.type[index].code)
                  THEN [exc |-> "ValueError", value |-> ""]
                  ELSE [exc |-> "none", value |-> str(int(reply.type[index].code) + 1)]

\* The GET check_parent_admin_level issues.
parent_get(locationParentId) == [kind |-> "parent", url |-> "Location/" \o locationParentId]

\* "x in resource" for a list of fields.
in_list(x, resource) == \E j \in DOMAIN resource : resource[j] = x

\* The nine trailing variables of location_extras' unpacking, by name; the
\* unpacking needs ten fields, and its except branch leaves latitude unbound.
location_fields(resource) ==
    LET n == Len(resource)
    IN  IF n >= 10
        THEN [locationParentName       |-> resource[n - 8],
              locationParentId         |-> resource[n - 7],
              locationType             |-> resource[n - 6],
              locationTypeCode         |-> resource[n - 5],
              locationAdminLevel       |-> resource[n - 4],
              locationPhysicalType     |-> resource[n - 3],
              locationPhysicalTypeCode |-> resource[n - 2],
              longitude                |-> resource[n - 1],
              latitude                 |-> resource[n]]
        ELSE [locationParentName       |-> "parentName",
              locationParentId         |-> "ParentId",
              locationType             |-> "type",
              locationTypeCode         |-> "typeCode",
              locationAdminLevel       |-> "adminLevel",
              locationPhysicalType     |-> "physicalType",
              locationPhysicalTypeCode |-> "physicalTypeCode",
              longitude                |-> "longitude",
              latitude                 |-> UNBOUND]

\* location_extras, lines 346-358: the parent reference.
location_parent(f, d) ==
    IF f.locationParentName # "" /\ f.locationParentName # "parentName"
    THEN replace(replace(d, "$parentName", f.locationParentName),
                 "$parentID", f.locationParentId)
    ELSE del_leaves(d, {"partOf_reference", "partOf_display"})

\* location_extras, lines 360-380: the type pair.  "index >= 0" on the None
\* of a coding that is not there is a TypeError.
location_type(f, r) ==
    IF r.exc # "none" THEN r
    ELSE
    LET d1 == IF Len(strip(f.locationType)) > 0 /\ f.locationType # "type"
              THEN replace(r.doc, "$t_display", f.locationType) ELSE r.doc
    IN  IF Len(strip(f.locationTypeCode)) > 0 /\ f.locationTypeCode # "typeCode"
        THEN shaped(replace(d1, "$t_code", f.locationTypeCode), "none", r.requests)
        ELSE LET index == identify_coding_object_index(d1.type, "location-type")
             IN  IF index = 0 THEN shaped(d1, "TypeError", r.requests)
                 ELSE shaped([d1 EXCEPT !.type = del_at(d1.type, index)], "none", r.requests)

\* del obj["resource"]["type"][index] for the administrative-level coding.
prune_admin_level(d, g) ==
    LET index == identify_coding_object_index(d.type, "administrative-level")
    IN  IF index = 0 THEN shaped(d, "TypeError", g)
        ELSE shaped([d EXCEPT !.type = del_at(d.type, index)], "none", g)

\* location_extras, lines 382-422: the administrative level, looked up on the
\* parent when the row gives none.
location_admin_level(resource, f, r, reply) ==
    IF r.exc # "none" THEN r
    ELSE IF Len(strip(f.locationAdminLevel)) > 0 /\ f.locationAdminLevel # "adminLevel"
    THEN shaped(replace(r.doc, "$adminLevelCode", f.locationAdminLevel), "none", r.requests)
    ELSE IF in_list(f.locationAdminLevel, resource)
    THEN LET admin_level == check_parent_admin_level(f.locationParentId, reply)
             g == Append(r.requests, parent_get(f.locationParentId))
         IN  IF admin_level.exc # "none" THEN shaped(r.doc, admin_level.exc, g)
             ELSE IF admin_level.value # ""
             THEN shaped(replace(r.doc, "$adminLevelCode", admin_level.value), "none", g)
             ELSE prune_admin_level(r.doc, g)
    ELSE prune_admin_level(r.doc, r.requests)

\* location_extras, lines 424-436: the physical type pair.
location_physical_type(f, r) ==
    IF r.exc # "none" THEN r
    ELSE
    LET d1 == IF Len(strip(f.locationPhysicalType)) > 0
                 /\ f.locationPhysicalType # "physicalType"
              THEN replace(r.doc, "$pt_display", f.locationPhysicalType) ELSE r.doc
    IN  IF Len(strip(f.locationPhysicalTypeCode)) > 0
           /\ f.locationPhysicalTypeCode # "physicalTypeCode"
        THEN shaped(replace(d1, "$pt_code", f.locationPhysicalTypeCode), "none", r.requests)
        ELSE shaped(del_leaves(d1, {"physicalType_code", "physicalType_display"}),
                    "none", r.requests)

\* location_extras, lines 438-449: the position.
location_position(f, r) ==
    IF r.exc # "none" THEN r
    ELSE IF f.longitude # "" /\ f.longitude # "longitude"
    THEN shaped(replace(replace(r.doc, "$longitude", f.longitude),
                        "$latitude", f.latitude), "none", r.requests)
    ELSE shaped(del_leaves(r.doc, {"position_longitude", "position_latitude"}),
                "none", r.requests)

\* location_extras; reply is the backend's answer to the parent lookup, read
\* only when the lookup is made.
location_extras(resource, payload_string, reply) ==
    LET f  == location_fields(resource)
        r1 == shaped(location_parent(f, payload_string), "none", <<>>)
        r2 == location_type(f, r1)
        r3 == location_admin_level(resource, f, r2, reply)
        r4 == location_physical_type(f, r3)
    IN  location_position(f, r4)

\* care_team_extras, lines 463-477: the two lists, as split elements.
care_team_elements(resource) ==
    LET n == Len(resource)
        organizations == IF n >= 2 THEN resource[n - 1] ELSE "organizations"
        participants  == IF n >= 2 THEN resource[n] ELSE "participants"
    IN  [elements  |-> IF organizations # "" /\ organizations # "organizations"
                       THEN split(organizations, "|") ELSE <<>>,
         elements2 |-> IF participants # "" /\ participants # "participants"
                       THEN split(participants, "|") ELSE <<>>]

\* x = item.split(":"); x[1] raises IndexError when the item holds no colon.
pair_ok(item) == Len(split(item, ":")) >= 2
pair_id(item) == split(item, ":")[1]
pair_display(item) == split(item, ":")[2]

\* care_team_extras
care_team_extras(resource, payload_string, ftype) ==
    LET e == care_team_elements(resource)
        orgs == IF contains(ftype, "orgs") THEN e.elements ELSE <<>>
        orgs_list ==
            [j \in DOMAIN orgs |->
                [reference |-> "Organization/" \o pair_id(orgs[j]),
                 display   |-> pair_display(orgs[j])]]
        org_participants ==
            [j \in DOMAIN orgs |->
                [role   |-> "394730007",
                 member |-> [reference |-> "Organization/" \o pair_id(orgs[j]),
                             display   |-> pair_display(orgs[j])]]]
        d1 == IF Len(org_participants) > 0
              THEN [payload_string EXCEPT !.participant = org_participants,
                                          !.managingOrganization = orgs_list]
              ELSE payload_string
        users == IF ~contains(ftype, "users") THEN <<>>
                 ELSE IF Len(e.elements2) > 0 THEN e.elements2 ELSE e.elements
        user_participants ==
            [j \in DOMAIN users |->
                [member |-> [reference |-> "Practitioner/" \o pair_id(users[j]),
                             display   |-> pair_display(users[j])]]]
        participant_list == org_participants \o user_participants
        d2 == IF contains(ftype, "users") /\ Len(participant_list) > 0
              THEN [d1 EXCEPT !.participant = participant_list]
              ELSE d1
    IN  IF \E j \in DOMAIN orgs : ~pair_ok(orgs[j])
        THEN shaped(payload_string, "IndexError", <<>>)
        ELSE IF \E j \in DOMAIN users : ~pair_ok(users[j])
        THEN shaped(d1, "IndexError", <<>>)
        ELSE shaped(d2, "none", <<>>)

\* ------------------------------------------------------------ build_payload

\* get_valid_resource_type: capitalise, drop the trailing "s".
get_valid_resource_type(rtype) ==
    IF rtype = "organizations" THEN "Organization"
    ELSE IF rtype = "locations" THEN "Location"
    ELSE "CareTeam"

\* What handle_request hands get_resource for GET <type>/<id>: None after a
\* transport failure ("fail"), else the status and, on 200, the versionId.
VersionReplies ==
    { [kind |-> "fail"],
      [kind |-> "response", status |-> 200, versionId |-> "2"],
      [kind |-> "response", status |-> 200, versionId |-> "7"],
      [kind |-> "response", status |-> 404, versionId |-> ""],
      [kind |-> "response", status |-> 500, versionId |-> ""] }

\* get_resource: [exc, value]; "0" when the status is not 200.
get_resource(resource_id, rtype, reply) ==
    IF reply.kind = "fail" THEN [exc |-> "TypeError", value |-> ""]
    ELSE IF reply.status = 200 THEN [exc |-> "none", value |-> reply.versionId]
    ELSE [exc |-> "none", value |-> "0"]

\* The GET get_resource issues.
version_get(resource_id, rtype) ==
    [kind |-> "version", url |-> get_valid_resource_type(rtype) \o "/" \o resource_id]

\* build_payload, lines 691-697: the unpacking of a row, with the defaults of
\* a row of fewer than four fields; resource[0] of an empty row is an IndexError.
unpack(resource) ==
    IF Len(resource) >= 4
    THEN [exc |-> "none", name |-> resource[1], status |-> resource[2],
          method |-> resource[3], id |-> resource[4]]
    ELSE IF Len(resource) = 0
    THEN [exc |-> "IndexError", name |-> "", status |-> "", method |-> "", id |-> ""]
    ELSE [exc |-> "none", name |-> resource[1],
          status |-> IF Len(resource) = 1 THEN "" ELSE resource[2],
          method |-> "create", id |-> uuid5(resource[1])]

\* The locals a loop iteration leaves behind.
locals(u, i, v) == [unique_uuid |-> u, identifier_uuid |-> i, version |-> v]

\* create_block with the derived id salted by the version the previous row
\* left behind: an identity that depends on more than the row.
create_block_salted(row, l) ==
    IF row.method = "create"
    THEN IF Len(strip(row.id)) > 0
         THEN locals(strip(row.id), strip(row.id), "1")
         ELSE locals(uuid5(row.name \o l.version), uuid5(row.name \o l.version), "1")
    ELSE l

\* build_payload, lines 699-714: method == "create".
create_block(row, l) ==
    IF row.method = "create"
    THEN IF Len(strip(row.id)) > 0
         THEN locals(strip(row.id), strip(row.id), "1")
         ELSE locals(uuid5(row.name), uuid5(row.name), "1")
    ELSE l

\* update_block fetching the version of every row that names an id, whatever
\* its method.
update_block_eager(row, rtype, l, reply) ==
    IF Len(strip(row.id)) = 0
    THEN [exc |-> IF row.method = "update" THEN "ValueError" ELSE "none",
          locals |-> l, requests |-> <<>>]
    ELSE LET v == get_resource(row.id, rtype, reply)
             g == <<version_get(row.id, rtype)>>
         IN  IF row.method # "update" THEN [exc |-> "none", locals |-> l, requests |-> g]
             ELSE IF v.exc # "none" THEN [exc |-> v.exc, locals |-> l, requests |-> g]
             ELSE IF v.value # "0"
             THEN [exc |-> "none", requests |-> g,
                   locals |-> locals(strip(row.id), strip(row.id), v.value)]
             ELSE [exc |-> "ValueError", requests |-> g,
                   locals |-> [l EXCEPT !.version = "0"]]

\* build_payload, lines 716-731: method == "update"; [exc, locals, requests].
update_block(row, rtype, l, reply) ==
    IF row.method # "update" THEN [exc |-> "none", locals |-> l, requests |-> <<>>]
    ELSE IF Len(strip(row.id)) = 0
    THEN [exc |-> "ValueError", locals |-> l, requests |-> <<>>]
    ELSE LET v == get_resource(row.id, rtype, reply)
             g == <<version_get(row.id, rtype)>>
         IN  IF v.exc # "none" THEN [exc |-> v.exc, locals |-> l, requests |-> g]
             ELSE IF v.value # "0"
             THEN [exc |-> "none", requests |-> g,
                   locals |-> locals(strip(row.id), strip(row.id), v.value)]
             ELSE [exc |-> "ValueError", requests |-> g,
                   locals |-> [l EXCEPT !.version = "0"]]

\* The template build_payload is given for a resource type.
payload_file(rtype) ==
    IF rtype = "organizations" THEN organizations_payload
    ELSE IF rtype = "locations" THEN locations_payload
    ELSE careteams_payload

\* build_payload, lines 734-751: the substitutions and the type's extras.
substitute(rtype, resource, row, l, preply) ==
    LET ps == replace(replace(replace(replace(replace(payload_file(rtype),
                  "$name", row.name),
                  "$unique_uuid", l.unique_uuid),
                  "$identifier_uuid", l.identifier_uuid),
                  "$version", l.version),
                  "$status", row.status)
    IN  IF rtype = "organizations" THEN organization_extras(resource, ps)
        ELSE IF rtype = "locations" THEN location_extras(resource, ps, preply)
        ELSE care_team_extras(resource, ps, "orgs & users")

\* One iteration of build_payload's loop over a row: [exc, doc, locals, requests].
\* l holds unique_uuid, identifier_uuid and version as the previous iteration
\* left them; reading one that is still unbound is an UnboundLocalError.
build_payload_row(rtype, resource, l, vreply, preply) ==
    LET row == unpack(resource)
        l1  == create_block(row, l)
        u   == update_block(row, rtype, l1, vreply)
        l2  == u.locals
        s   == substitute(rtype, resource, row, l2, preply)
        out(e, d, ll, g) == [exc |-> e, doc |-> d, locals |-> ll, requests |-> g]
    IN  IF row.exc # "none" THEN out(row.exc, payload_file(rtype), l, <<>>)
        ELSE IF u.exc # "none" THEN out(u.exc, payload_file(rtype), l2, u.requests)
        ELSE IF l2.unique_uuid = UNBOUND
        THEN out("UnboundLocalError", payload_file(rtype), l2, u.requests)
        ELSE out(s.exc, s.doc, l2, u.requests \o s.requests)

\* The bundle with a new entry put before the others.
add_entry_in_front(bundle, entry) == <<entry>> \o bundle

\* build_payload, line 753, and build_assign_payload, line 610:
\* final_string = final_string + <the entry> + ",".
add_entry(bundle, entry) == Append(bundle, entry)

\* ------------------------------------------------------------ inputs

\* Rows of an organizations csv (name, active, method, id): blank and ragged
\* lines, the three kinds of method, ids empty, blank, plain and padded.
OrganizationRows ==
    { <<>>, <<"A">>, <<"A", "true">>, <<"A", "true", "update">>,
      <<"A", "true", "create", "">>,
      <<"B", "false", "create", "">>,
      <<"A", "true", "create", "x1">>,
      <<"A", "true", "create", " x1 ">>,
      <<"A", "true", "create", " ">>,
      <<"A", "", "update", "x1">>,
      <<"B", "true", "update", " x2">>,
      <<"B", "true", "update", "">>,
      <<"B", "true", "update", " ">>,
      <<"B", "true", "", "x2">> }

\* Rows of a locations csv (name, status, method, id, parentName, parentID,
\* type, typeCode, adminLevel, physicalType, physicalTypeCode, longitude,
\* latitude), full and cut short.
LocationFull ==
    { <<"A", "active", "create", "", "", "", "Building", "bu", "1", "Area", "area", "36.8", "-1.2">>,
      <<"A", "active", "create", "", "P", "p1", "Building", "bu", "", "Area", "area", "36.8", "-1.2">>,
      <<"B", "active", "create", "x1", "P", "p1", "Building", "bu", "2", "", "", "", "">>,
      <<"B", "active", "create", "", "parentName", "p1", "", "", "1", "Area", "area", "", "">>,
      <<"A", "active", "create", "", "", "", "", "", "", "", "", "", "">>,
      <<"B", "active", "update", "x2", "P", "p1", "Building", "bu", "1", "Area", "area", "36.8", "-1.2">> }

LocationRows ==
    LocationFull \cup
    { SubSeq(r, 1, n) : r \in { <<"A", "active", "create", "x1", "", "", "Building", "bu", "1", "Area", "area", "36.8", "-1.2">>,
                                <<"B", "active", "create", "", "P", "p1", "Building", "bu", "1", "Area", "area", "36.8", "-1.2">> },
                        n \in {4, 9, 11, 12} } \cup
    { <<"A", "active", "create", "x1", "", "", "Building", "bu", "1", "Area", "", "36.8">>,
      <<"A", "active", "create", "", "", "", "", "bu", "1", "", "area", "", "">> }

\* Rows of a careTeams csv (name, status, method, id, organizations,
\* participants), full and cut short.
CareTeamRows ==
    { <<"T", "active", "create", "", "10:Clinic A|11:Clinic B", "">>,
      <<"T", "active", "create", "", "10:Clinic A", "participants">>,
      <<"T", "active", "create", "", "10:Clinic A|11:Clinic B", "7:Ann">>,
      <<"T", "active", "create", "", "", "7:Ann|8:Bob">>,
      <<"T", "active", "create", "", "", "">>,
      <<"T", "active", "create", "", "organizations", "participants">>,
      <<"U", "active", "update", "x1", "", "">>,
      <<"T", "active", "create", "", "10:Clinic A|11:Clinic B">>,
      <<"T", "active", "create", "">>,
      <<"T", "active", "create", "x1">>,
      <<"T">> }

RowsOf(rtype) ==
    IF rtype = "organizations" THEN OrganizationRows
    ELSE IF rtype = "locations" THEN LocationRows
    ELSE CareTeamRows

\* Every list of at most n rows over a set.
RECURSIVE Lists(_, _)
Lists(S, n) ==
    IF n = 0 THEN {<<>>}
    ELSE LET shorter == Lists(S, n - 1)
         IN  shorter \cup {Append(l, r) : l \in {x \in shorter : Len(x) = n - 1}, r \in S}

\* ------------------------------------------------------------ main, generic flow

\* main() up to the dispatch on resource_type: the rows are read.
Init ==
    /\ flow = "generic"
    /\ pc = "start"
    /\ resource_type \in {"organizations", "locations", "careTeams"}
    /\ resource_list \in Lists(RowsOf(resource_type), MaxRows)
    /\ idx = 1
    /\ unique_uuid = UNBOUND
    /\ identifier_uuid = UNBOUND
    /\ version = UNBOUND
    /\ final_string = <<>>
    /\ exc = "none"
    /\ requests = <<>>
    /\ posted = <<>>
    /\ aux = [run |-> 1, first |-> <<>>]

\* main, lines 1293 and 1361-1364: "if resource_list:" sends an empty input to
\* the error log, and final_response.text of the string "" then raises.
main_dispatch ==
    /\ flow = "generic" /\ pc = "start"
    /\ IF resource_list = <<>>
       THEN pc' = "crashed" /\ exc' = "AttributeError"
       ELSE pc' = "build" /\ exc' = exc
    /\ UNCHANGED <<flow, resource_type, resource_list, idx, unique_uuid,
                   identifier_uuid, version, final_string, requests, posted, aux>>

\* The replies a row can draw on: the version fetch is made for an update
\* with an id, the parent lookup for a location row that names no level.
NoVersionReply == [kind |-> "response", status |-> 404, versionId |-> ""]
NoParentReply == [kind |-> "notype"]

version_replies(resource) ==
    LET row == unpack(resource)
    IN  IF row.exc = "none" /\ row.method = "update" /\ Len(strip(row.id)) > 0
        THEN VersionReplies ELSE {NoVersionReply}

parent_replies(rtype, resource) ==
    LET f == location_fields(resource)
    IN  IF /\ rtype = "locations"
           /\ ~(Len(strip(f.locationAdminLevel)) > 0 /\ f.locationAdminLevel # "adminLevel")
           /\ in_list(f.locationAdminLevel, resource)
        THEN ParentReplies ELSE {NoParentReply}

\* The GETs of one iteration as the log keeps them: with the row that made
\* them and the answer each was given.
answered(g, row, vreply, preply) ==
    [k \in DOMAIN g |->
        [kind |-> g[k].kind, url |-> g[k].url, row |-> row,
         reply |-> IF g[k].kind = "version" THEN vreply ELSE preply]]

\* build_payload, lines 688-753: one iteration of the loop.  An exception
\* leaves build_payload and main: nothing catches it.
build_payload_step ==
    /\ flow = "generic" /\ pc = "build" /\ idx <= Len(resource_list)
    /\ \E vreply \in version_replies(resource_list[idx]),
          preply \in parent_replies(resource_type, resource_list[idx]) :
       \E r \in {build_payload_row(resource_type, resource_list[idx],
                     locals(unique_uuid, identifier_uuid, version), vreply, preply)} :
             /\ unique_uuid' = r.locals.unique_uuid
             /\ identifier_uuid' = r.locals.identifier_uuid
             /\ version' = r.locals.version
             /\ requests' = requests \o answered(r.requests, idx, vreply, preply)
             /\ exc' = r.exc
             /\ IF r.exc = "none"
                THEN /\ final_string' = add_entry(final_string, r.doc)
                     /\ idx' = idx + 1
                     /\ pc' = pc
                ELSE /\ final_string' = final_string
                     /\ idx' = idx
                     /\ pc' = "crashed"
    /\ UNCHANGED <<flow, resource_type, resource_list, posted, aux>>

\* build_payload returns and main POSTs the bundle, lines 755-756 and 1315:
\* handle_request returns the response, or None when the transport gave up,
\* and final_response.text of None raises at line 1364.
post_bundle ==
    /\ flow = "generic" /\ pc = "build" /\ idx > Len(resource_list)
    /\ posted' = Append(posted, final_string)
    /\ \E delivered \in BOOLEAN :
         IF delivered THEN pc' = "done" /\ exc' = exc
         ELSE pc' = "crashed" /\ exc' = "AttributeError"
    /\ UNCHANGED <<flow, resource_type, resource_list, idx, unique_uuid,
                   identifier_uuid, version, final_string, requests, aux>>

\* ------------------------------------------------------------ reading the run

\* The columns of a generic row by their place in the header
\* (name, status, method, id, ...); a column the row stops short of is "".
column(resource, k) == IF Len(resource) >= k THEN resource[k] ELSE ""
name_column(resource) == column(resource, 1)
method_column(resource) == column(resource, 3)
id_column(resource) == column(resource, 4)

\* The rows whose entry is in the bundle being built.
Shaped == 1..Len(final_string)

\* The row an exception was raised on, when one was.
Failed == IF pc = "crashed" /\ idx <= Len(resource_list) THEN {idx} ELSE {}

entry_id(doc) == text(doc.leaf.id)
entry_version(doc) == text(doc.leaf.ifMatch)
has_partOf(doc) == {"partOf_reference", "partOf_display"} \subseteq DOMAIN doc.leaf

\* C2: in build_payload a row whose method is update never falls back to
\* create: with an empty id, or a GET that does not answer 200, it raises and
\* the row is given no entry; an entry for it carries the provided id and a fetched
\* version, never a derived id or the version "1" of a creation.
C2_UpdateNeverCreates ==
    flow = "generic" =>
        \A j \in Shaped :
            method_column(resource_list[j]) = "update" =>
                /\ strip(id_column(resource_list[j])) # ""
                /\ entry_id(final_string[j]) = strip(id_column(resource_list[j]))
                /\ entry_id(final_string[j]) # uuid5(name_column(resource_list[j]))
                /\ \E g \in {requests[k] : k \in DOMAIN requests} :
                       /\ g.url = version_get(id_column(resource_list[j]), resource_type).url
                       /\ g.kind = "version"
                       /\ entry_version(final_string[j]) \in
                              {r.versionId : r \in {x \in VersionReplies :
                                   x.kind = "response" /\ x.status = 200}}

\* C3: in the generic flow a failing row (a missing field, a ragged row, an
\* update against a target that is not there) is skipped and the run goes on
\* to shape the other rows and submit the bundle: the ValueError of an update
\* that cannot be made never ends the run with rows unshaped and nothing sent.
C3_RowFailureConfined ==
    flow = "generic" =>
        ~(/\ pc = "crashed" /\ exc = "ValueError"
          /\ \E j \in Failed : j < Len(resource_list)
          /\ posted = <<>>)

\* The two list columns of a careTeams row by their place in the header.
organizations_column(resource) == column(resource, 5)
participants_column(resource) == column(resource, 6)

\* A list column that is absent: empty, its placeholder, or cut off the row.
absent(value, placeholder) == value = "" \/ value = placeholder

\* C8: a careTeams row with N id:display pairs in organizations and no
\* participants yields exactly N managing organizations and exactly N
\* participants, the k-th referencing Organization/<id of the k-th pair>
\* (stated for rows of the full six columns).
C8_OrganizationsOnly ==
    (flow = "generic" /\ resource_type = "careTeams") =>
        \A j \in Shaped :
            LET row == resource_list[j]
                pairs == split(organizations_column(row), "|")
            IN  (/\ Len(row) = 6
                 /\ ~absent(organizations_column(row), "organizations")
                 /\ absent(participants_column(row), "participants")) =>
                    /\ Len(final_string[j].managingOrganization) = Len(pairs)
                    /\ Len(final_string[j].participant) = Len(pairs)
                    /\ \A k \in DOMAIN final_string[j].participant :
                           final_string[j].participant[k].member.reference =
                               "Organization/" \o pair_id(pairs[k])

\* C9: a careTeams row whose organizations and participants are both absent
\* (empty, placeholders, or a row that stops at name,status,method,id) raises
\* nothing and adds no participant and no managing organization.
C9_AbsentListsAreEmpty ==
    (flow = "generic" /\ resource_type = "careTeams") =>
        \A j \in Shaped \cup Failed :
            LET row == resource_list[j]
            IN  (/\ Len(row) >= 4
                 /\ method_column(row) = "create"
                 /\ absent(organizations_column(row), "organizations")
                 /\ absent(participants_column(row), "participants")) =>
                    /\ j \in Shaped
                    /\ final_string[j].participant = <<>>
                    /\ final_string[j].managingOrganization = <<>>

\* The parent columns of a locations row by their place in the header.
parentName_column(resource) == column(resource, 5)
parentID_column(resource) == column(resource, 6)

\* C10: for every locations row, an empty (or placeholder) parent name leaves
\* the document without partOf; any other parent name leaves partOf in, its
\* reference and display set from the row's parent id and parent name.  The
\* second half is stated for rows of the full thirteen columns, the first for
\* every row: a row that stops before its parent name has none.
C10_ParentPruning ==
    (flow = "generic" /\ resource_type = "locations") =>
        \A j \in Shaped :
            LET row == resource_list[j]
                doc == final_string[j]
            IN  /\ absent(parentName_column(row), "parentName") => ~has_partOf(doc)
                /\ (Len(row) = 13 /\ ~absent(parentName_column(row), "parentName")) =>
                       /\ has_partOf(doc)
                       /\ text(doc.leaf.partOf_reference) =
                              "Location/" \o parentID_column(row)
                       /\ text(doc.leaf.partOf_display) = parentName_column(row)

\* ------------------------------------------------------------ build_assign_payload

\* Rows of a users-organizations csv (practitioner name, practitioner id,
\* organization name, organization id), and one cut short.
AssignRows ==
    { <<"Ann", "a", "Clinic", "ba">>,
      <<"Ann", "ab", "Clinic", "a">>,
      <<"Bob", "p2", "Depot", "o1">>,
      <<"Bob", "p2", "Depot">> }

\* The PractitionerRole the backend holds for a practitioner, when it has one.
MatchedRoles ==
    { [id |-> "r1", versionId |-> "3", has_organization |-> TRUE],
      [id |-> "r2", versionId |-> "1", has_organization |-> FALSE] }

\* What handle_request hands build_assign_payload for the _search: None after
\* a transport failure, else the Bundle's total and its first entry (the
\* search asks for _count=1).
SearchReplies ==
    {[kind |-> "fail"], [kind |-> "bundle", total |-> 0]} \cup
    {[kind |-> "bundle", total |-> n, resource |-> m] : n \in {1, 2}, m \in MatchedRoles}

\* The GET build_assign_payload issues for a row, with its answer.
search_get(practitioner_id, rtype, reply) ==
    [kind |-> "search",
     url |-> rtype \o "/_search?_count=1&practitioner=Practitioner/" \o practitioner_id,
     reply |-> reply]

\* One entry of the bundle build_assign_payload returns, lines 601-608.
assign_entry(rtype, practitioner_role_id, v, organization_id, organization_name) ==
    [url |-> rtype \o "/" \o practitioner_role_id,
     ifMatch |-> v,
     id |-> practitioner_role_id,
     organization |-> [reference |-> "Organization/" \o organization_id,
                       display |-> organization_name]]

\* total >= 1 read as "update the first match": the guess the code must not make.
assign_row_guessing(row, rtype, reply) ==
    LET out(e, d) == [exc |-> e, entry |-> d, requests |-> <<search_get(row[2], rtype, reply)>>]
    IN  IF reply.kind = "fail" THEN out("TypeError", <<>>)
        ELSE IF reply.total >= 1
        THEN out("none", assign_entry(rtype, reply.resource.id,
                                      reply.resource.versionId, row[4], row[3]))
        ELSE out("none", assign_entry(rtype, uuid5(row[2] \o row[4]), "1", row[4], row[3]))

\* build_assign_payload, lines 548-610: one iteration over an unpacked row
\* (practitioner_name, practitioner_id, organization_name, organization_id).
assign_row(row, rtype, reply) ==
    LET out(e, d) == [exc |-> e, entry |-> d, requests |-> <<search_get(row[2], rtype, reply)>>]
    IN  IF reply.kind = "fail" THEN out("TypeError", <<>>)
        ELSE IF reply.total = 1
        THEN out("none", assign_entry(rtype, reply.resource.id,
                                      reply.resource.versionId, row[4], row[3]))
        ELSE IF reply.total = 0
        THEN out("none", assign_entry(rtype, uuid5(row[2] \o row[4]), "1", row[4], row[3]))
        ELSE out("ValueError", <<>>)

\* main() with --assign users-organizations, the rows read.
InitAssign ==
    /\ flow = "assign"
    /\ pc = "build"
    /\ resource_type = "PractitionerRole"
    /\ resource_list \in Lists(AssignRows, MaxRows) \ {<<>>}
    /\ idx = 1
    /\ unique_uuid = UNBOUND
    /\ identifier_uuid = UNBOUND
    /\ version = UNBOUND
    /\ final_string = <<>>
    /\ exc = "none"
    /\ requests = <<>>
    /\ posted = <<>>
    /\ aux = [run |-> 1, first |-> <<>>]

\* build_assign_payload, lines 547-610: one iteration of the loop; the
\* unpacking of a row that has not four fields is a ValueError.
build_assign_payload_step ==
    /\ flow = "assign" /\ pc = "build" /\ idx <= Len(resource_list)
    /\ \E reply \in IF Len(resource_list[idx]) = 4 THEN SearchReplies
                    ELSE {[kind |-> "fail"]} :
       \E r \in {IF Len(resource_list[idx]) = 4
                 THEN assign_row(resource_list[idx], resource_type, reply)
                 ELSE [exc |-> "ValueError", entry |-> <<>>, requests |-> <<>>]} :
          /\ requests' = requests \o r.requests
          /\ exc' = r.exc
          /\ IF r.exc = "none"
             THEN /\ final_string' = add_entry(final_string, r.entry)
                  /\ idx' = idx + 1
                  /\ pc' = pc
             ELSE /\ final_string' = final_string
                  /\ idx' = idx
                  /\ pc' = "crashed"
    /\ UNCHANGED <<flow, resource_type, resource_list, unique_uuid,
                   identifier_uuid, version, posted, aux>>

\* build_assign_payload returns and main POSTs the bundle, lines 612-613 and 1342.
post_assign_bundle ==
    /\ flow = "assign" /\ pc = "build" /\ idx > Len(resource_list)
    /\ posted' = Append(posted, final_string)
    /\ \E delivered \in BOOLEAN :
         IF delivered THEN pc' = "done" /\ exc' = exc
         ELSE pc' = "crashed" /\ exc' = "AttributeError"
    /\ UNCHANGED <<flow, resource_type, resource_list, idx, unique_uuid,
                   identifier_uuid, version, final_string, requests, aux>>

NextAssign ==
    \/ build_assign_payload_step
    \/ post_assign_bundle

SpecAssign == InitAssign /\ [][NextAssign]_vars

\* The answer the backend gave to the search of the j-th row: each row that
\* reaches the search logs exactly one.
search_reply(j) == requests[j].reply

\* C1: in build_assign_payload the decision for a row depends only on the
\* match count: total 0 gives an entry at the id derived from practitioner id
\* + organization id with version "1"; total 1 gives one at the match's id
\* with the match's versionId; total >= 2 raises and no bundle is returned.
C1_DecisionByMatchCount ==
    flow = "assign" =>
        /\ \A j \in Shaped :
               LET row == resource_list[j]
                   reply == search_reply(j)
                   derived == uuid5(row[2] \o row[4])
               IN  /\ reply.kind = "bundle" /\ reply.total \in {0, 1}
                   /\ reply.total = 0 =>
                          /\ final_string[j].url = "PractitionerRole/" \o derived
                          /\ final_string[j].id = derived
                          /\ final_string[j].ifMatch = "1"
                   /\ reply.total = 1 =>
                          /\ final_string[j].url = "PractitionerRole/" \o reply.resource.id
                          /\ final_string[j].id = reply.resource.id
                          /\ final_string[j].ifMatch = reply.resource.versionId
        /\ \A j \in DOMAIN requests :
               (search_reply(j).kind = "bundle" /\ search_reply(j).total >= 2) =>
                   /\ pc = "crashed" /\ exc = "ValueError" /\ idx = j
                   /\ posted = <<>>

\* C1's case: a row updated at the id and version of its single match, and
\* then a row with two matches that raised.
C1_Witness ==
    /\ flow = "assign" /\ Len(final_string) = 1
    /\ search_reply(1).kind = "bundle" /\ search_reply(1).total = 1
    /\ final_string[1].ifMatch = search_reply(1).resource.versionId
    /\ Len(requests) = 2
    /\ search_reply(2).kind = "bundle" /\ search_reply(2).total = 2
    /\ pc = "crashed" /\ exc = "ValueError"

\* C6: derived identities separate distinct natural keys: two rows with
\* distinct (practitioner id, organization id) pairs, both created, get
\* different derived ids (the hash taken to be injective on its input).
C6_DistinctKeysDistinctIds ==
    flow = "assign" =>
        \A j, k \in Shaped :
            (/\ search_reply(j).total = 0 /\ search_reply(k).total = 0
             /\ <<resource_list[j][2], resource_list[j][4]>> #
                    <<resource_list[k][2], resource_list[k][4]>>) =>
                final_string[j].id # final_string[k].id

\* ------------------------------------------------------------ users

\* Rows of a users csv (firstName, lastName, username, email, id, userType,
\* enableUser, keycloakGroupId, keycloakGroupName, appId, password), and one
\* cut short.
UserRows ==
    { <<"Ann", "Lee", "ab", "a@x", "", "Supervisor", "true", "c", "grp", "app", "pw">>,
      <<"Ann", "Lee", "a", "a@x", "", "Nurse", "true", "bc", "grp", "app", "pw">>,
      <<"Bob", "Roe", "bob", "b@x", "p1", " Reader ", "true", "g1", "grp", "app", "pw">>,
      <<"Bob", "Roe", " bob ", "b@x", " p1", "Reader", "true", "g1", "grp", "app", "pw">>,
      <<"Cy", "Poe", "cy", "c@x", " ", "", "true", "g1", "grp", "app", "pw">>,
      <<"Cy", "Poe", "cy">> }

\* role_code giving a role name it does not know the code of a Reader.
role_code_defaulting(userType) ==
    LET t == strip(userType)
    IN  IF t = "Supervisor" THEN "super-admin"
        ELSE IF t = "Specialist" THEN "specialist"
        ELSE IF t = "Senior Specialist" THEN "senior-specialist"
        ELSE IF t = "Front Line Worker" THEN "flw"
        ELSE IF t = "Site Coordinator" THEN "site-coordinator"
        ELSE IF t = "Site Admin" THEN "site-admin"
        ELSE "reader"

\* create_user_resources, lines 212-283: the code of the PractitionerRole for
\* a role name; "" stands for the code field deleted.
role_code(userType) ==
    LET t == strip(userType)
    IN  IF t = "Supervisor" THEN "super-admin"
        ELSE IF t = "Specialist" THEN "specialist"
        ELSE IF t = "Senior Specialist" THEN "senior-specialist"
        ELSE IF t = "Reader" THEN "reader"
        ELSE IF t = "Front Line Worker" THEN "flw"
        ELSE IF t = "Site Coordinator" THEN "site-coordinator"
        ELSE IF t = "Site Admin" THEN "site-admin"
        ELSE ""

\* create_user_resources: the three resources of the bundle, by what the
\* substitutions put into json_payloads/user_resources_payload.json.
create_user_resources(user_id, user) ==
    LET username == user[3]
        id == user[5]
        keycloakGroupId == user[8]
    IN  [practitioner_uuid |->
             IF Len(strip(id)) = 0
             THEN uuid5(username \o keycloakGroupId \o "practitioner_uuid")
             ELSE id,
         keycloak_user_uuid |-> user_id,
         group_uuid |-> uuid5(username \o keycloakGroupId \o "group_uuid"),
         practitioner_role_uuid |->
             uuid5(username \o keycloakGroupId \o "practitioner_role_uuid"),
         firstName |-> user[1], lastName |-> user[2], email |-> user[4],
         enable_user |-> user[7],
         code |-> role_code(user[6])]

\* What handle_request hands create_user for POST /users: None after a
\* transport failure, else the status and, on 201, the new account's id.
CreateUserReplies ==
    { [kind |-> "fail"],
      [kind |-> "response", status |-> 201, id |-> "k1"],
      [kind |-> "response", status |-> 409, id |-> ""] }

\* create_user: [exc, value]; "0" stands for the 0 of "not created".
create_user(user, reply) ==
    IF Len(user) # 11 THEN [exc |-> "ValueError", value |-> "0"]
    ELSE IF reply.kind = "fail" THEN [exc |-> "AttributeError", value |-> "0"]
    ELSE IF reply.status = 201 THEN [exc |-> "none", value |-> reply.id]
    ELSE [exc |-> "none", value |-> "0"]

\* What handle_request hands confirm_keycloak_user for the exact-username
\* search: None, the list of accounts (none, the one asked for, another), or
\* the JSON object of an error answer ("error").
LookupReplies ==
    { [kind |-> "fail"],
      [kind |-> "error", found |-> FALSE, same |-> FALSE, id |-> ""],
      [kind |-> "list", found |-> FALSE, same |-> FALSE, id |-> ""],
      [kind |-> "list", found |-> TRUE, same |-> TRUE, id |-> "k2"],
      [kind |-> "list", found |-> TRUE, same |-> FALSE, id |-> "k3"] }

\* confirm_keycloak_user: [exc, value]; "0" when no account is confirmed.
\* json_response[0] of a JSON object is a KeyError, which is not caught.
confirm_keycloak_user(user, reply) ==
    IF reply.kind = "fail" THEN [exc |-> "TypeError", value |-> "0"]
    ELSE IF reply.kind = "error" THEN [exc |-> "KeyError", value |-> "0"]
    ELSE IF ~reply.found THEN [exc |-> "none", value |-> "0"]
    ELSE IF ~reply.same THEN [exc |-> "none", value |-> "0"]
    ELSE [exc |-> "none", value |-> reply.id]

\* What handle_request hands confirm_practitioner: None; the total of the
\* search by identifier, or the OperationOutcome of a search that was refused
\* ("outcome", a body without "total"); or, for GET Practitioner/<id>, the status and whether
\* the secondary identifier read from a parsable body is the account id.
PractitionerReplies ==
    {[kind |-> "fail"]} \cup
    {[kind |-> "outcome"]} \cup
    {[kind |-> "search", total |-> n] : n \in {0, 1, 2}} \cup
    {[kind |-> "read", status |-> 404, linked |-> FALSE, parsable |-> TRUE]} \cup
    {[kind |-> "read", status |-> 200, linked |-> l, parsable |-> q] :
         l \in BOOLEAN, q \in BOOLEAN}

\* The kind of answer the lookup of a row's Practitioner draws.
practitioner_reply_kind(user) == IF strip(user[5]) = "" THEN "search" ELSE "read"

\* confirm_practitioner taking a single Practitioner found by the search for
\* none: "counter > 1".
confirm_practitioner_lenient(user, user_id, reply) ==
    IF reply.kind = "fail" THEN [exc |-> "TypeError", value |-> FALSE]
    ELSE IF reply.kind = "outcome" THEN [exc |-> "KeyError", value |-> FALSE]
    ELSE IF strip(user[5]) = ""
    THEN [exc |-> "none", value |-> reply.total > 1]
    ELSE IF reply.status = 404 THEN [exc |-> "none", value |-> FALSE]
    ELSE [exc |-> "none", value |-> TRUE]

\* confirm_practitioner taking a Practitioner whose secondary identifier is
\* not the account id as not linked.
confirm_practitioner_strict(user, user_id, reply) ==
    IF reply.kind = "fail" THEN [exc |-> "TypeError", value |-> FALSE]
    ELSE IF reply.kind = "outcome" THEN [exc |-> "KeyError", value |-> FALSE]
    ELSE IF strip(user[5]) = ""
    THEN [exc |-> "none", value |-> reply.total > 0]
    ELSE IF reply.status = 404 THEN [exc |-> "none", value |-> FALSE]
    ELSE [exc |-> "none", value |-> reply.linked]

\* confirm_practitioner: [exc, value], value TRUE when a Practitioner counts
\* as linked.
confirm_practitioner(user, user_id, reply) ==
    IF reply.kind = "fail" THEN [exc |-> "TypeError", value |-> FALSE]
    ELSE IF reply.kind = "outcome" THEN [exc |-> "KeyError", value |-> FALSE]
    ELSE IF strip(user[5]) = ""
    THEN [exc |-> "none", value |-> reply.total > 0]
    ELSE IF reply.status = 404 THEN [exc |-> "none", value |-> FALSE]
    ELSE [exc |-> "none", value |-> TRUE]

\* The remote calls of one user row, as the log keeps them.
call(kind, target, reply) == [kind |-> kind, url |-> target, reply |-> reply]

\* main, lines 1297-1309: the body of the loop over a user row;
\* [exc, outcome, user_id, requests, payload].
user_row(user, creply, lreply, preply) ==
    LET out(e, o, u, g, b) ==
            [exc |-> e, outcome |-> o, user_id |-> u, requests |-> g, payload |-> b]
        c  == create_user(user, creply)
        g1 == IF Len(user) = 11 THEN <<call("create_user", "/users", creply)>> ELSE <<>>
        l  == confirm_keycloak_user(user, lreply)
        g2 == IF c.value = "0"
              THEN Append(g1, call("confirm_keycloak_user", strip(user[3]), lreply))
              ELSE g1
        user_id == IF c.value # "0" THEN c.value ELSE l.value
        pr == confirm_practitioner(user, user_id, preply)
        g3 == Append(g2, call("confirm_practitioner",
                              IF strip(user[5]) = ""
                              THEN "Practitioner?identifier=" \o user_id
                              ELSE "Practitioner/" \o strip(user[5]), preply))
    IN  IF c.exc # "none" THEN out(c.exc, "crashed", "0", g1, <<>>)
        ELSE IF c.value = "0" /\ l.exc # "none" THEN out(l.exc, "crashed", "0", g2, <<>>)
        ELSE IF user_id = "0" THEN out("none", "abandoned", "0", g2, <<>>)
        ELSE IF pr.exc # "none" THEN out(pr.exc, "crashed", user_id, g3, <<>>)
        ELSE IF pr.value THEN out("none", "linked", user_id, g3, <<>>)
        ELSE out("none", "submitted", user_id, g3, create_user_resources(user_id, user))

\* main() with --resource_type users, the rows read.
InitUsers ==
    /\ flow = "users"
    /\ pc = "users"
    /\ resource_type = "users"
    /\ resource_list \in Lists(UserRows, MaxRows) \ {<<>>}
    /\ idx = 1
    /\ unique_uuid = UNBOUND
    /\ identifier_uuid = UNBOUND
    /\ version = UNBOUND
    /\ final_string = <<>>
    /\ exc = "none"
    /\ requests = <<>>
    /\ posted = <<>>
    /\ aux = [run |-> 1, first |-> <<>>]

\* The answers a user row can draw on: each call is made only on its path.
create_replies(user) == IF Len(user) = 11 THEN CreateUserReplies ELSE {[kind |-> "fail"]}
lookup_replies(user, creply) ==
    IF Len(user) = 11 /\ create_user(user, creply).exc = "none"
       /\ create_user(user, creply).value = "0"
    THEN LookupReplies ELSE {[kind |-> "fail"]}
practitioner_replies(user, creply, lreply) ==
    IF /\ Len(user) = 11
       /\ create_user(user, creply).exc = "none"
       /\ \/ create_user(user, creply).value # "0"
          \/ /\ confirm_keycloak_user(user, lreply).exc = "none"
             /\ confirm_keycloak_user(user, lreply).value # "0"
    THEN {r \in PractitionerReplies :
              \/ r.kind \in {"fail", practitioner_reply_kind(user)}
              \/ r.kind = "outcome" /\ practitioner_reply_kind(user) = "search"}
    ELSE {[kind |-> "fail"]}

\* main, lines 1297-1309: one iteration of the loop over the users; the POST
\* of the row's bundle goes through handle_request, which swallows a
\* transport failure.  final_string takes the outcome of each row.
process_user ==
    /\ flow = "users" /\ pc = "users" /\ idx <= Len(resource_list)
    /\ \E creply \in create_replies(resource_list[idx]) :
       \E lreply \in lookup_replies(resource_list[idx], creply) :
       \E preply \in practitioner_replies(resource_list[idx], creply, lreply) :
       \E r \in {user_row(resource_list[idx], creply, lreply, preply)} :
          /\ requests' = requests \o
                 [k \in DOMAIN r.requests |->
                     [kind |-> r.requests[k].kind, url |-> r.requests[k].url,
                      reply |-> r.requests[k].reply, row |-> idx]]
          /\ exc' = r.exc
          /\ IF r.exc = "none"
             THEN /\ final_string' = Append(final_string,
                                            [outcome |-> r.outcome, user_id |-> r.user_id])
                  /\ idx' = idx + 1
                  /\ pc' = pc
                  /\ posted' = IF r.outcome = "submitted"
                               THEN Append(posted, [row |-> idx, payload |-> r.payload])
                               ELSE posted
             ELSE /\ final_string' = final_string
                  /\ idx' = idx
                  /\ pc' = "crashed"
                  /\ posted' = posted
    /\ UNCHANGED <<flow, resource_type, resource_list, unique_uuid,
                   identifier_uuid, version, aux>>

\* main, lines 1364: after the loop, final_response.text of the last POST's
\* response, or of the "" no POST replaced, or of the None of a failed POST.
finish_users ==
    /\ flow = "users" /\ pc = "users" /\ idx > Len(resource_list)
    /\ \E delivered \in BOOLEAN :
         IF delivered /\ posted # <<>> THEN pc' = "done" /\ exc' = exc
         ELSE pc' = "crashed" /\ exc' = "AttributeError"
    /\ UNCHANGED <<flow, resource_type, resource_list, idx, unique_uuid,
                   identifier_uuid, version, final_string, requests, posted, aux>>

NextUsers ==
    \/ process_user
    \/ finish_users

SpecUsers == InitUsers /\ [][NextUsers]_vars

\* ------------------------------------------------------------ a second run

\* main() is run again on the same csv file: a new process, the same rows,
\* whatever the backend holds by now.  The entries of the first run are kept
\* to compare with.
rerun ==
    /\ flow = "generic" /\ pc \in {"done", "crashed"} /\ aux.run = 1
    /\ aux' = [run |-> 2, first |-> final_string]
    /\ pc' = "start"
    /\ idx' = 1
    /\ unique_uuid' = UNBOUND
    /\ identifier_uuid' = UNBOUND
    /\ version' = UNBOUND
    /\ final_string' = <<>>
    /\ exc' = "none"
    /\ requests' = <<>>
    /\ UNCHANGED <<flow, resource_type, resource_list, posted>>

NextRerun ==
    \/ main_dispatch
    \/ build_payload_step
    \/ post_bundle
    \/ rerun

SpecRerun == Init /\ [][NextRerun]_vars

\* A row that asks for a creation and provides no id.
creates_fresh(resource) ==
    /\ Len(resource) >= 4
    /\ method_column(resource) = "create"
    /\ strip(id_column(resource)) = ""

\* C5: re-import is idempotent: a second run of build_payload over the same
\* rows gives every row with method create and no provided id the identity
\* the first run gave it, whatever the backend answered in either run.
C5_ReimportSameIdentities ==
    (flow = "generic" /\ aux.run = 2) =>
        \A j \in Shaped :
            (j <= Len(aux.first) /\ creates_fresh(resource_list[j])) =>
                /\ entry_id(final_string[j]) = entry_id(aux.first[j])
                /\ final_string[j].leaf.url = aux.first[j].leaf.url
                /\ final_string[j].leaf.identifier = aux.first[j].leaf.identifier

\* C5's case: a second run has shaped a fresh creation into a document that
\* differs from the first run's (the parent lookup answered differently).
C5_Witness ==
    /\ flow = "generic" /\ aux.run = 2
    /\ \E j \in Shaped :
           /\ j <= Len(aux.first) /\ creates_fresh(resource_list[j])
           /\ final_string[j] # aux.first[j]

Next ==
    \/ main_dispatch
    \/ build_payload_step
    \/ post_bundle

Spec == Init /\ [][Next]_vars

\* ------------------------------------------------------------ identity resolution

\* The generic flow and the users flow side by side.
InitResolve == Init \/ InitUsers

NextResolve == Next \/ NextUsers

SpecResolve == InitResolve /\ [][NextResolve]_vars

\* A generic row of four fields or more that asks for a creation and
\* provides an id.
creates_with_id(resource) ==
    /\ Len(resource) >= 4
    /\ method_column(resource) = "create"
    /\ strip(id_column(resource)) # ""

\* The Practitioner id a user row's bundle was submitted with.
submitted_practitioner(k) == posted[k].payload.practitioner_uuid

\* C4 as stated: a provided id that is not blank is the identity, unchanged,
\* in build_payload (method create) and in create_user_resources.
C4_ProvidedIdUnchanged ==
    /\ flow = "generic" =>
           \A j \in Shaped :
               creates_with_id(resource_list[j]) =>
                   entry_id(final_string[j]) = id_column(resource_list[j])
    /\ flow = "users" =>
           \A k \in DOMAIN posted :
               strip(resource_list[posted[k].row][5]) # "" =>
                   submitted_practitioner(k) = resource_list[posted[k].row][5]

\* ------------------------------------------------------------ export

\* The Locations the backend holds: the documents an import of full rows
\* put there.
StoredLocations ==
    { build_payload_row("locations", r, locals(UNBOUND, UNBOUND, UNBOUND),
                        NoVersionReply, NoParentReply).doc :
          r \in {x \in LocationFull : x[3] = "create"} }

\* The columns export_resources_to_csv writes for a Location.
LocationElements ==
    <<"name", "status", "method", "id", "identifier", "parentName", "parentID",
      "type", "typeCode", "physicalType", "physicalTypeCode">>

\* export_resources_to_csv, lines 1100-1145: the value of one element of one
\* entry; a KeyError gives "".  type[0] of an empty list is an IndexError,
\* which nothing catches: "<IndexError>".
export_value(x, element) ==
    LET leaf(p) == IF p \in DOMAIN x.leaf THEN text(x.leaf[p]) ELSE ""
    IN  IF element = "method" THEN "update"
        ELSE IF element = "identifier" THEN leaf("identifier")
        ELSE IF element = "parentName" THEN leaf("partOf_display")
        ELSE IF element = "parentID"
        THEN IF "partOf_reference" \in DOMAIN x.leaf
             THEN split1(leaf("partOf_reference"), "/")[2] ELSE ""
        ELSE IF element = "type"
        THEN IF Len(x.type) = 0 THEN "<IndexError>" ELSE text(x.type[1].display)
        ELSE IF element = "typeCode"
        THEN IF Len(x.type) = 0 THEN "<IndexError>" ELSE text(x.type[1].code)
        ELSE IF element = "physicalType" THEN leaf("physicalType_display")
        ELSE IF element = "physicalTypeCode" THEN leaf("physicalType_code")
        ELSE leaf(element)

\* The row written for one entry.
export_row(x) == [k \in DOMAIN LocationElements |-> export_value(x, LocationElements[k])]

export_raises(x) == \E k \in DOMAIN LocationElements :
                        export_value(x, LocationElements[k]) = "<IndexError>"

\* main() with --export_resources True --resource_type Location: the backend
\* holds the Locations in aux.stored.
InitExport ==
    /\ flow = "export"
    /\ pc = "export"
    /\ resource_type = "Location"
    /\ resource_list = <<>>
    /\ idx = 1
    /\ unique_uuid = UNBOUND
    /\ identifier_uuid = UNBOUND
    /\ version = UNBOUND
    /\ final_string = <<>>
    /\ exc = "none"
    /\ requests = <<>>
    /\ posted = <<>>
    /\ \E stored \in Lists(StoredLocations, MaxRows) \ {<<>>} :
           aux = [run |-> 1, first |-> <<>>, stored |-> stored]

\* export_resources_to_csv, lines 1071-1154, and write_csv: the rows of the
\* file written, one per entry, when the GET answers 200.
export_resources_to_csv ==
    /\ flow = "export" /\ pc = "export"
    /\ \E status \in {200, 500} :
         IF status # 200
         THEN /\ pc' = "done" /\ exc' = exc /\ resource_list' = resource_list
         ELSE IF \E k \in DOMAIN aux.stored : export_raises(aux.stored[k])
         THEN /\ pc' = "crashed" /\ exc' = "IndexError" /\ resource_list' = resource_list
         ELSE /\ pc' = "exported" /\ exc' = exc
              /\ resource_list' = [k \in DOMAIN aux.stored |-> export_row(aux.stored[k])]
    /\ UNCHANGED <<flow, resource_type, idx, unique_uuid, identifier_uuid,
                   version, final_string, requests, posted, aux>>

\* main() run on the exported file with --resource_type locations: read_csv
\* skips the header and returns the rows written.
reimport ==
    /\ flow = "export" /\ pc = "exported"
    /\ flow' = "generic"
    /\ pc' = "start"
    /\ resource_type' = "locations"
    /\ UNCHANGED <<resource_list, idx, unique_uuid, identifier_uuid, version,
                   final_string, exc, requests, posted, aux>>

NextExport ==
    \/ export_resources_to_csv
    \/ reimport
    \/ main_dispatch
    \/ build_payload_step
    \/ post_bundle

SpecExport == InitExport /\ [][NextExport]_vars

\* The coding of a document's type list for the location type, as a set.
location_type_codings(doc) ==
    { [code |-> text(doc.type[k].code), display |-> text(doc.type[k].display)] :
          k \in {n \in DOMAIN doc.type : contains(doc.type[n].system, "location-type")} }

\* The leaves of a subtree, as text; absent leaves are left out.
subtree(doc, paths) ==
    [p \in paths \cap DOMAIN doc.leaf |-> text(doc.leaf[p])]

\* C7: export then re-import of a Location is a round trip: the document
\* build_payload shapes from an exported row has the parent reference, the
\* type pair and the physical type of the resource that was exported.
C7_ExportReimportRoundTrip ==
    (flow = "generic" /\ "stored" \in DOMAIN aux) =>
        \A j \in Shaped :
            /\ subtree(final_string[j], {"partOf_reference", "partOf_display"}) =
                   subtree(aux.stored[j], {"partOf_reference", "partOf_display"})
            /\ location_type_codings(final_string[j]) = location_type_codings(aux.stored[j])
            /\ subtree(final_string[j], {"physicalType_code", "physicalType_display"}) =
                   subtree(aux.stored[j], {"physicalType_code", "physicalType_display"})

\* ------------------------------------------------------------ administrative level

\* The parent lookups made so far, each with its row and its answer.
parent_lookups == {requests[k] : k \in {n \in DOMAIN requests : requests[n].kind = "parent"}}

\* The codings of a list for the administrative level.
admin_level_codings(type) ==
    {type[k] : k \in {n \in DOMAIN type : contains(type[n].system, "administrative-level")}}

\* The level after a level, as the text of a number.
level_after(code) ==
    IF code = "0" THEN "1" ELSE IF code = "1" THEN "2" ELSE IF code = "2" THEN "3" ELSE "?"

\* C11: a Location row that names no administrative level and whose parent,
\* fetched, carries an administrative-level coding with code n is given the
\* level n + 1, as code and in the display.
C11_LevelInherited ==
    (flow = "generic" /\ resource_type = "locations") =>
        \A g \in parent_lookups :
            (g.row \in Shaped /\ g.reply.kind = "types") =>
                \A p \in admin_level_codings(g.reply.type) :
                    \E c \in admin_level_codings(final_string[g.row].type) :
                        /\ text(c.code) = level_after(p.code)
                        /\ text(c.display) = "Level " \o level_after(p.code)

\* C11's case: a parent at level "2" was fetched and the child shaped at "3".
C11_Witness ==
    /\ flow = "generic" /\ resource_type = "locations"
    /\ \E g \in parent_lookups :
           /\ g.row \in Shaped /\ g.reply.kind = "types"
           /\ \E p \in admin_level_codings(g.reply.type) : p.code = "2"
           /\ \E c \in admin_level_codings(final_string[g.row].type) : text(c.code) = "3"

\* A fetched parent without an administrative-level coding: no type list, or
\* a type list that holds none.
without_level(reply) ==
    \/ reply.kind = "notype"
    \/ reply.kind = "types" /\ admin_level_codings(reply.type) = {}

\* C12: when the parent a row names is fetched and has no
\* administrative-level coding, the row
\* raises nothing and its document carries no administrative-level entry.
C12_NoLevelPruned ==
    (flow = "generic" /\ resource_type = "locations") =>
        \A g \in parent_lookups :
            (without_level(g.reply) /\ g.url # "Location/") =>
                /\ g.row \notin Failed
                /\ g.row \in Shaped =>
                       admin_level_codings(final_string[g.row].type) = {}

\* ------------------------------------------------------------ active flag

\* C13: organization_extras puts the row's second column in the active flag,
\* and true when the column is absent: the row has one field, or the column
\* is the empty string.
C13_ActiveDefaultsTrue ==
    (flow = "generic" /\ resource_type = "organizations") =>
        \A j \in Shaped :
            text(final_string[j].leaf.active) =
                IF column(resource_list[j], 2) = "" THEN "true"
                ELSE column(resource_list[j], 2)

\* ------------------------------------------------------------ users, row by row

\* The remote calls a user row made, in order.
calls_of(j) == SelectSeq(requests, LAMBDA g : g.row = j)

\* The account id a row's calls yielded: from create_user answered 201, else
\* from confirm_keycloak_user finding the username; "0" when neither did.
account_id(j) ==
    LET made == calls_of(j)
        ids == { made[k].reply.id : k \in
                    { n \in DOMAIN made :
                         \/ /\ made[n].kind = "create_user"
                            /\ made[n].reply.kind = "response"
                            /\ made[n].reply.status = 201
                         \/ /\ made[n].kind = "confirm_keycloak_user"
                            /\ made[n].reply.kind = "list"
                            /\ made[n].reply.found /\ made[n].reply.same } }
    IN  IF ids = {} THEN "0" ELSE CHOOSE i \in ids : TRUE

\* The rows the loop has entered.
Entered == 1..(IF idx <= Len(resource_list) /\ pc # "crashed" THEN idx - 1 ELSE
               IF idx <= Len(resource_list) THEN idx ELSE Len(resource_list))

\* C14: a user row for which neither create_user nor confirm_keycloak_user
\* yields an account id makes no Practitioner lookup and submits nothing, and
\* the loop goes on to the next row whatever the identity provider answered:
\* an answer of the identity provider never ends the run.
C14_NoAccountRowAbandoned ==
    flow = "users" =>
        \A j \in Entered :
            account_id(j) = "0" =>
                /\ \A k \in DOMAIN requests :
                       requests[k].row = j => requests[k].kind # "confirm_practitioner"
                /\ \A k \in DOMAIN posted : posted[k].row # j
                /\ LET made == calls_of(j)
                   IN  (made # <<>> /\ made[Len(made)].reply.kind # "fail") =>
                           ~(pc = "crashed" /\ idx = j)

\* The rows whose bundle of Practitioner resources was submitted.
Submitted == {posted[k].row : k \in DOMAIN posted}

\* The answers the Practitioner lookups of a row were given.
practitioner_answers(j) ==
    {requests[k].reply : k \in {n \in DOMAIN requests :
        requests[n].row = j /\ requests[n].kind = "confirm_practitioner"}}

\* C15: the resources of a row are submitted only when confirm_practitioner
\* reports not linked: without a Practitioner id in the row a search count
\* above 0 is linked; with one, a 404 is not linked and any Practitioner that
\* exists is linked, whether or not its secondary identifier is the account id.
C15_SubmittedOnlyWhenNotLinked ==
    flow = "users" =>
        /\ \A j \in Submitted :
               /\ practitioner_answers(j) # {}
               /\ \A a \in practitioner_answers(j) :
                      IF strip(resource_list[j][5]) = ""
                      THEN a.kind = "search" /\ a.total = 0
                      ELSE a.kind = "read" /\ a.status = 404
        /\ \A j \in 1..Len(final_string) :
               \A a \in practitioner_answers(j) :
                   /\ (a.kind = "search" /\ a.total > 0) => j \notin Submitted
                   /\ (a.kind = "read" /\ a.status # 404) => j \notin Submitted
                   /\ (a.kind = "search" /\ a.total = 0) => j \in Submitted
                   /\ (a.kind = "read" /\ a.status = 404) => j \in Submitted

\* C15's case: a row with a Practitioner id whose Practitioner exists under
\* another account's identifier was passed over, nothing submitted for it.
C15_Witness ==
    /\ flow = "users"
    /\ \E j \in 1..Len(final_string) :
           /\ strip(resource_list[j][5]) # ""
           /\ \E a \in practitioner_answers(j) :
                  a.kind = "read" /\ a.status = 200 /\ ~a.linked /\ a.parsable
           /\ final_string[j].outcome = "linked"
           /\ j \notin Submitted

\* ------------------------------------------------------------ clean_duplicates

\* main() with --setup clean_duplicates, the rows read; the operator has not
\* been asked yet.
InitClean ==
    /\ flow = "clean"
    /\ pc = "confirm"
    /\ resource_type = "users"
    /\ resource_list \in Lists(UserRows, MaxRows) \ {<<>>}
    /\ idx = 1
    /\ unique_uuid = UNBOUND
    /\ identifier_uuid = UNBOUND
    /\ version = UNBOUND
    /\ final_string = <<>>
    /\ exc = "none"
    /\ requests = <<>>
    /\ posted = <<>>
    /\ \E cascade_delete \in BOOLEAN :
           aux = [run |-> 1, first |-> <<>>, cascade_delete |-> cascade_delete,
                  answers |-> <<>>]

\* click.confirm with abort=True that goes on whatever the answer.
confirm_continue_anyway(answer) == "clean"

\* click.confirm("Do you want to continue?", abort=True): where main goes on
\* an answer; a refusal raises click.Abort.
confirm_continue(answer) == IF answer THEN "clean" ELSE "aborted"

\* main, lines 1351-1356: the operator is asked.
confirm ==
    /\ flow = "clean" /\ pc = "confirm"
    /\ \E answer \in BOOLEAN :
          /\ pc' = confirm_continue(answer)
          /\ exc' = IF confirm_continue(answer) = "aborted" THEN "Abort" ELSE exc
          /\ aux' = [aux EXCEPT !.answers = Append(@, answer)]
    /\ UNCHANGED <<flow, resource_type, resource_list, idx, unique_uuid,
                   identifier_uuid, version, final_string, requests, posted>>

\* What handle_request hands clean_duplicates for the search of the account's
\* Practitioners: None, or the bundle's total and the ids of its entries.
DuplicateReplies ==
    { [kind |-> "fail"],
      [kind |-> "bundle", total |-> 0, entry |-> <<>>],
      [kind |-> "bundle", total |-> 1, entry |-> <<"p1">>],
      [kind |-> "bundle", total |-> 1, entry |-> <<"p2">>],
      [kind |-> "bundle", total |-> 2, entry |-> <<"p1", "p2">>],
      [kind |-> "bundle", total |-> 2, entry |-> <<"p2", "p3">>] }

\* delete_resource: the DELETE it sends.
delete_resource(rtype, resource_id, cascade) ==
    [kind |-> "DELETE",
     url |-> rtype \o "/" \o resource_id \o (IF cascade THEN "?_cascade=delete" ELSE "")]

\* clean_duplicates, lines 1024-1042: the ids delete_resource is called with
\* for a row, in order.
duplicates_to_delete(user, reply) ==
    LET practitioner_uuid_provided == IF Len(user) >= 5 THEN strip(user[5]) ELSE ""
    IN  IF practitioner_uuid_provided # "" /\ reply.total > 1
        THEN SelectSeq(reply.entry, LAMBDA p_uuid : p_uuid # practitioner_uuid_provided)
        ELSE <<>>

\* clean_duplicates, lines 995-1045: one iteration over a user row;
\* [exc, requests].  lost is the place of the DELETE the transport gave up
\* on (r.text of None raises), 0 when every DELETE got an answer.
clean_row(user, areply, dreply, cascade, lost) ==
    LET g1 == <<[kind |-> "account", url |-> strip(user[3]), reply |-> areply]>>
        keycloak_uuid == areply.id
        g2 == Append(g1, [kind |-> "duplicates",
                          url |-> "Practitioner?identifier=" \o keycloak_uuid,
                          reply |-> dreply])
        ids == duplicates_to_delete(user, dreply)
        sent == IF lost = 0 THEN ids ELSE SubSeq(ids, 1, lost)
        g3 == g2 \o [k \in DOMAIN sent |->
                        [kind |-> "DELETE",
                         url |-> delete_resource("Practitioner", sent[k], cascade).url,
                         reply |-> [kind |-> IF k = lost THEN "fail" ELSE "response"]]]
    IN  IF areply.kind = "fail" THEN [exc |-> "TypeError", requests |-> g1]
        ELSE IF areply.kind = "error" THEN [exc |-> "KeyError", requests |-> g1]
        ELSE IF ~areply.found THEN [exc |-> "IndexError", requests |-> g1]
        ELSE IF dreply.kind = "fail" THEN [exc |-> "TypeError", requests |-> g2]
        ELSE IF lost # 0 THEN [exc |-> "AttributeError", requests |-> g3]
        ELSE [exc |-> "none", requests |-> g3]

\* The answers a row of clean_duplicates can draw on.
duplicate_replies(areply) ==
    IF areply.kind = "list" /\ areply.found THEN DuplicateReplies ELSE {[kind |-> "fail"]}
lost_deletes(user, dreply) ==
    IF dreply.kind = "bundle" THEN 0..Len(duplicates_to_delete(user, dreply)) ELSE {0}

\* clean_duplicates, lines 995-1045: one iteration of the loop.
clean_duplicates_step ==
    /\ flow = "clean" /\ pc = "clean" /\ idx <= Len(resource_list)
    /\ \E areply \in LookupReplies :
       \E dreply \in duplicate_replies(areply) :
       \E lost \in lost_deletes(resource_list[idx], dreply) :
       \E r \in {clean_row(resource_list[idx], areply, dreply, aux.cascade_delete, lost)} :
          /\ requests' = requests \o
                 [k \in DOMAIN r.requests |->
                     [kind |-> r.requests[k].kind, url |-> r.requests[k].url,
                      reply |-> r.requests[k].reply, row |-> idx]]
          /\ exc' = r.exc
          /\ IF r.exc = "none"
             THEN idx' = idx + 1 /\ pc' = pc
             ELSE idx' = idx /\ pc' = "crashed"
    /\ UNCHANGED <<flow, resource_type, resource_list, unique_uuid, identifier_uuid,
                   version, final_string, posted, aux>>

\* main, lines 1357 and 1364: clean_duplicates returns, and final_response is
\* still the "" it started as: its .text raises.
finish_clean ==
    /\ flow = "clean" /\ pc = "clean" /\ idx > Len(resource_list)
    /\ pc' = "crashed"
    /\ exc' = "AttributeError"
    /\ UNCHANGED <<flow, resource_type, resource_list, idx, unique_uuid,
                   identifier_uuid, version, final_string, requests, posted, aux>>

NextClean ==
    \/ confirm
    \/ clean_duplicates_step
    \/ finish_clean

SpecClean == InitClean /\ [][NextClean]_vars

\* The DELETE requests sent so far.
deletes == {requests[k] : k \in {n \in DOMAIN requests : requests[n].kind = "DELETE"}}

\* C16: no DELETE is sent unless the operator has answered the confirmation
\* prompt with yes earlier in the run; after a refusal clean_duplicates is
\* never entered and no request at all is made.
C16_DeleteOnlyAfterConfirmation ==
    flow = "clean" =>
        /\ deletes # {} => (aux.answers # <<>> /\ aux.answers[1])
        /\ requests # <<>> => (aux.answers # <<>> /\ aux.answers[1])
        /\ (aux.answers # <<>> /\ ~aux.answers[1]) =>
               (pc = "aborted" /\ requests = <<>>)

\* C16's case: the operator agreed and a DELETE was sent.
C16_Witness ==
    /\ flow = "clean" /\ deletes # {}
    /\ aux.answers = <<TRUE>>

\* The rows clean_duplicates has gone through without raising.
Cleaned == 1..(idx - 1)

\* The Practitioners the backend returned for a row's account.
returned_ids(j) ==
    LET made == calls_of(j)
    IN  UNION { {made[k].reply.entry[e] : e \in DOMAIN made[k].reply.entry} :
                  k \in {n \in DOMAIN made : made[n].kind = "duplicates"
                                             /\ made[n].reply.kind = "bundle"} }

\* The canonical Practitioner id a row provides, "" when it provides none.
canonical_id(user) == IF Len(user) >= 5 THEN strip(user[5]) ELSE ""

\* The DELETEs a row sent, and the ids among the Practitioners returned and
\* the canonical one that they were sent for.
deletes_of(j) == {g \in deletes : g.row = j}
deleted_ids(j) ==
    { id \in returned_ids(j) \cup {canonical_id(resource_list[j])} :
          \E g \in deletes_of(j) :
              g.url = delete_resource("Practitioner", id, aux.cascade_delete).url }

\* The total the backend reported for a row's account.
reported_total(j) ==
    LET made == calls_of(j)
        t == {made[k].reply.total : k \in {n \in DOMAIN made :
                  made[n].kind = "duplicates" /\ made[n].reply.kind = "bundle"}}
    IN  IF t = {} THEN 0 ELSE CHOOSE n \in t : TRUE

\* C17: clean_duplicates keeps only the canonical Practitioner: the one whose
\* id is the row's canonical id is never deleted; a row deletes only when it
\* provides a canonical id and the backend reports more than one Practitioner
\* for the account; and then, of the Practitioners returned, exactly the
\* canonical one is left.
C17_OnlyCanonicalRemains ==
    flow = "clean" =>
        \A j \in Cleaned :
            LET user == resource_list[j]
            IN  /\ canonical_id(user) \notin deleted_ids(j)
                /\ deletes_of(j) # {} =>
                       (canonical_id(user) # "" /\ reported_total(j) > 1)
                /\ (canonical_id(user) # "" /\ reported_total(j) > 1) =>
                       returned_ids(j) \ deleted_ids(j) = {canonical_id(user)}

\* ------------------------------------------------------------ bundle assembly

\* The generic flow and the assignment flow side by side.
InitBundle == Init \/ InitAssign

NextBundle == Next \/ NextAssign

SpecBundle == InitBundle /\ [][NextBundle]_vars

\* Whether an entry of a bundle is the one shaped from a row: by the name a
\* generic row carries, by the organization an assignment row names.
entry_of_row(entry, resource) ==
    IF flow = "generic"
    THEN text(entry.leaf.name) = name_column(resource)
    ELSE /\ entry.organization.reference = "Organization/" \o resource[4]
         /\ entry.organization.display = resource[3]

\* C18: the bundle build_payload or build_assign_payload returns holds one
\* entry per input row, in the order of the rows, and main sends it as one
\* request.
C18_OneEntryPerRowInOrder ==
    flow \in {"generic", "assign"} =>
        /\ Len(posted) <= 1
        /\ \A j \in Shaped : entry_of_row(final_string[j], resource_list[j])
        /\ \A k \in DOMAIN posted :
               /\ Len(posted[k]) = Len(resource_list)
               /\ \A j \in DOMAIN posted[k] :
                      entry_of_row(posted[k][j], resource_list[j])

\* C18's case: a bundle of two rows that differ was sent.
C18_Witness ==
    /\ flow \in {"generic", "assign"}
    /\ Len(posted) = 1 /\ Len(posted[1]) = 2 /\ Len(resource_list) = 2
    /\ ~entry_of_row(posted[1][1], resource_list[2])
    /\ pc = "done"

\* ------------------------------------------------------------ role codes

\* Role names a users csv can hold: the seven the code knows, some of them
\* padded, and others.
RoleNames ==
    { "Supervisor", "Specialist", "Senior Specialist", "Reader",
      "Front Line Worker", "Site Coordinator", "Site Admin",
      " Supervisor", "Site Admin ", " Reader ", "reader", "Nurse", "", "Admin" }

\* create_user_resources called on one user row, for an account id.
InitResources ==
    /\ flow = "resources"
    /\ pc = "shape"
    /\ resource_type = "users"
    /\ \E userType \in RoleNames, id \in {"", "p1"}, username \in {"ab", "bob"} :
           resource_list = << <<"Ann", "Lee", username, "a@x", id, userType,
                                "true", "g1", "grp", "app", "pw">> >>
    /\ idx = 1
    /\ unique_uuid = UNBOUND
    /\ identifier_uuid = UNBOUND
    /\ version = UNBOUND
    /\ final_string = <<>>
    /\ exc = "none"
    /\ requests = <<>>
    /\ posted = <<>>
    /\ aux = [run |-> 1, first |-> <<>>]

\* main, line 1307: payload = create_user_resources(user_id, user).
create_user_resources_step ==
    /\ flow = "resources" /\ pc = "shape"
    /\ \E user_id \in {"k1", "k2"} :
           final_string' = <<create_user_resources(user_id, resource_list[idx])>>
    /\ pc' = "done"
    /\ UNCHANGED <<flow, resource_type, resource_list, idx, unique_uuid,
                   identifier_uuid, version, exc, requests, posted, aux>>

NextResources == create_user_resources_step

SpecResources == InitResources /\ [][NextResources]_vars

\* The recognised role names and their codes, pair by pair.
RoleCodes ==
    << <<"Supervisor", "super-admin">>, <<"Specialist", "specialist">>,
       <<"Senior Specialist", "senior-specialist">>, <<"Reader", "reader">>,
       <<"Front Line Worker", "flw">>, <<"Site Coordinator", "site-coordinator">>,
       <<"Site Admin", "site-admin">> >>

\* C19: the PractitionerRole entry of create_user_resources carries the fixed
\* code of the trimmed role name when it is one of the seven recognised, and
\* no code field at all for any other role name.
C19_RoleCodeOrNone ==
    (flow = "resources" /\ pc = "done") =>
        LET t == strip(resource_list[1][6])
            known == {k \in DOMAIN RoleCodes : RoleCodes[k][1] = t}
        IN  /\ \A k \in known : final_string[1].code = RoleCodes[k][2]
            /\ known = {} => final_string[1].code = ""

\* C19's cases: a padded recognised name was given its code.
C19_Witness ==
    /\ flow = "resources" /\ pc = "done"
    /\ resource_list[1][6] = "Site Admin "
    /\ final_string[1].code = "site-admin"

\* ------------------------------------------------------------ transport failures

\* The remote calls the transport gave up on: handle_request logged the
\* exception and returned None.
lost_calls == {requests[k] : k \in {n \in DOMAIN requests : requests[n].reply.kind = "fail"}}

\* C20: a remote call that fails in handle_request fails only the row that
\* made it: the run does not end on that row with rows after it unprocessed.
C20_TransportFailureScoped ==
    flow \in {"generic", "users"} =>
        \A g \in lost_calls :
            ~(pc = "crashed" /\ idx = g.row /\ idx < Len(resource_list))

\* ------------------------------------------------------------ version fetches

\* The version fetches a row made.
version_fetches(j) ==
    {requests[k] : k \in {n \in DOMAIN requests :
        requests[n].kind = "version" /\ requests[n].row = j}}

\* C21: build_payload fetches a version for a row if and only if the row's
\* method is update and its id, trimmed, is not empty; a row with method
\* create is given the version "1" and no fetch is made for it.
C21_VersionFetchedOnlyForUpdate ==
    flow = "generic" =>
        \A j \in Shaped \cup Failed :
            LET row == resource_list[j]
            IN  /\ version_fetches(j) # {} <=>
                       (method_column(row) = "update" /\ strip(id_column(row)) # "")
                /\ (j \in Shaped /\ method_column(row) = "create") =>
                       /\ entry_version(final_string[j]) = "1"
                       /\ version_fetches(j) = {}

\* C21's case: a creation with an id shaped at version "1" with no fetch,
\* then an update shaped at the version fetched for it.
C21_Witness ==
    /\ flow = "generic" /\ Len(final_string) = 2
    /\ method_column(resource_list[1]) = "create"
    /\ strip(id_column(resource_list[1])) # ""
    /\ version_fetches(1) = {}
    /\ method_column(resource_list[2]) = "update"
    /\ \E g \in version_fetches(2) :
           g.reply.kind = "response" /\ g.reply.status = 200
           /\ entry_version(final_string[2]) = g.reply.versionId

\* ------------------------------------------------------------ optional groups

\* The tokens left anywhere in a document.
tokens_left(doc) ==
    UNION ({tokens_of(doc.leaf[p]) : p \in DOMAIN doc.leaf} \cup
           {tokens_of(doc.type[k].code) \cup tokens_of(doc.type[k].display) :
                k \in DOMAIN doc.type})

\* The tokens location_extras is there to resolve.
LocationTokens ==
    {"$t_display", "$t_code", "$pt_display", "$pt_code", "$longitude", "$latitude",
     "$adminLevelCode"}

\* A field of a row that carries data: not blank and not the placeholder.
present(value, placeholder) == strip(value) # "" /\ value # placeholder

\* C22: for a locations row of the full thirteen columns, whatever fields are
\* filled, location_extras leaves none of its tokens in the document; a type
\* pair or physical-type pair the row fills carries the row's values, and one
\* the row leaves empty is removed.
C22_OptionalGroupsComplete ==
    (flow = "generic" /\ resource_type = "locations") =>
        \A j \in Shaped :
            LET row == resource_list[j]
                doc == final_string[j]
            IN  Len(row) = 13 =>
                    /\ tokens_left(doc) \cap LocationTokens = {}
                    /\ (present(row[7], "type") /\ present(row[8], "typeCode")) =>
                           location_type_codings(doc) =
                               {[code |-> row[8], display |-> row[7]]}
                    /\ (~present(row[7], "type") /\ ~present(row[8], "typeCode")) =>
                           location_type_codings(doc) = {}
                    /\ (present(row[10], "physicalType")
                            /\ present(row[11], "physicalTypeCode")) =>
                           subtree(doc, {"physicalType_code", "physicalType_display"}) =
                               [p \in {"physicalType_code", "physicalType_display"} |->
                                   IF p = "physicalType_code" THEN row[11] ELSE row[10]]
                    /\ (~present(row[10], "physicalType")
                            /\ ~present(row[11], "physicalTypeCode")) =>
                           subtree(doc, {"physicalType_code", "physicalType_display"}) =
                               << >>

\* ------------------------------------------------------------ parent lookup

\* C23: the parent lookup is made only for a row that names no level and
\* names a parent: a row of the full thirteen columns with the level, the
\* parent name and the parent id all empty makes no lookup, and its level
\* entry is pruned.
C23_LookupOnlyWithParent ==
    (flow = "generic" /\ resource_type = "locations") =>
        \A j \in Shaped \cup Failed :
            LET row == resource_list[j]
                lookups == {g \in parent_lookups : g.row = j}
            IN  Len(row) = 13 =>
                    /\ lookups # {} =>
                           /\ ~present(row[9], "adminLevel")
                           /\ row[6] # ""
                    /\ (row[9] = "" /\ row[5] = "" /\ row[6] = "") =>
                           /\ lookups = {}
                           /\ j \in Shaped
                           /\ admin_level_codings(final_string[j].type) = {}

\* ------------------------------------------------------------ rows on their own

\* C24: the identity and the version of a row's entry come from that row
\* alone and the backend's answer to it: the id is the row's provided id or
\* the one derived from its name, the version is "1" or the one fetched for
\* the row, whatever the rows before it were.
C24_RowsIndependent ==
    flow = "generic" =>
        \A j \in Shaped :
            LET row == resource_list[j]
            IN  /\ entry_id(final_string[j]) \in
                       {strip(id_column(row)), uuid5(name_column(row))}
                /\ entry_version(final_string[j]) \in
                       {"1"} \cup {g.reply.versionId : g \in version_fetches(j)}

\* ------------------------------------------------------------ order of a user row

\* The kinds of the remote calls a user row made, in order.
steps_of(j) == [k \in DOMAIN calls_of(j) |-> calls_of(j)[k].kind]

\* The orders the steps of a row can take, the submission aside.
StepOrders ==
    { <<"create_user">>,
      <<"create_user", "confirm_keycloak_user">>,
      <<"create_user", "confirm_practitioner">>,
      <<"create_user", "confirm_keycloak_user", "confirm_practitioner">> }

\* C25: the steps of a user row come in the order account creation, account
\* lookup if creation gave no id, Practitioner check, submission; the
\* Practitioner check comes only after an account id; a row submits at most
\* one transaction; and a well-formed row whose calls were all answered ends
\* abandoned, linked or submitted.
C25_UserRowOrder ==
    flow = "users" =>
        \A j \in Entered :
            LET row == resource_list[j]
                made == calls_of(j)
            IN  /\ Len(row) = 11 => steps_of(j) \in StepOrders
                /\ practitioner_answers(j) # {} => account_id(j) # "0"
                /\ Cardinality({k \in DOMAIN posted : posted[k].row = j}) <= 1
                /\ j \in Submitted => practitioner_answers(j) # {}
                /\ j <= Len(final_string) =>
                       final_string[j].outcome \in {"abandoned", "linked", "submitted"}
                /\ (/\ Len(row) = 11
                    /\ \A k \in DOMAIN made : made[k].reply.kind # "fail") =>
                       ~(pc = "crashed" /\ idx = j /\ account_id(j) # "0")

\* ------------------------------------------------------------ users, run again

\* The id the identity provider gives the account of a username.
account_of(username) == "k:" \o username

\* main() with --resource_type users on one row, against an identity provider
\* and a backend that keep what they were sent: aux.accounts holds the
\* usernames with an account, aux.practitioners the Practitioners stored,
\* each with the account it names.
InitUsersBacked ==
    /\ flow = "users"
    /\ pc = "users"
    /\ resource_type = "users"
    /\ \E user \in UserRows : resource_list = <<user>>
    /\ idx = 1
    /\ unique_uuid = UNBOUND
    /\ identifier_uuid = UNBOUND
    /\ version = UNBOUND
    /\ final_string = <<>>
    /\ exc = "none"
    /\ requests = <<>>
    /\ posted = <<>>
    /\ aux = [run |-> 1, first |-> <<>>, accounts |-> {}, practitioners |-> {},
              before |-> [accounts |-> {}, practitioners |-> {}]]

\* The names the identity provider may keep an account under: the username as
\* create_user sent it (line 135, untrimmed) or normalised.
stored_names(user) == {user[3], strip(user[3])}

\* What create_user is answered: 201 and the new account's id, 409 when the
\* username has an account, or nothing after a transport failure.
backed_create(user) ==
    IF Len(user) # 11 THEN {[kind |-> "fail"]}
    ELSE {[kind |-> "fail"]} \cup
         (IF stored_names(user) \cap aux.accounts # {}
          THEN {[kind |-> "response", status |-> 409, id |-> ""]}
          ELSE {[kind |-> "response", status |-> 201, id |-> account_of(n)] :
                    n \in stored_names(user)})

\* What confirm_keycloak_user is answered for the exact, trimmed username.
backed_lookup(user) ==
    IF Len(user) # 11 THEN {[kind |-> "fail"]}
    ELSE {[kind |-> "fail"]} \cup
         (IF strip(user[3]) \in aux.accounts
          THEN {[kind |-> "list", found |-> TRUE, same |-> TRUE,
                 id |-> account_of(strip(user[3]))]}
          ELSE {[kind |-> "list", found |-> FALSE, same |-> FALSE, id |-> ""]})

\* What confirm_practitioner is answered: the count of the Practitioners that
\* name the account, or the Practitioner of the id the row gives.
backed_practitioner(user, user_id) ==
    IF Len(user) # 11 THEN {[kind |-> "fail"]}
    ELSE {[kind |-> "fail"]} \cup
         (IF strip(user[5]) = ""
          THEN {[kind |-> "search",
                 total |-> Cardinality({q \in aux.practitioners : q.account = user_id})]}
          ELSE IF \E q \in aux.practitioners : q.id = strip(user[5])
          THEN {[kind |-> "read", status |-> 200, parsable |-> TRUE,
                 linked |-> \E q \in aux.practitioners :
                                q.id = strip(user[5]) /\ q.account = user_id]}
          ELSE {[kind |-> "read", status |-> 404, linked |-> FALSE, parsable |-> TRUE]})

\* main, lines 1297-1309, against the stores: one iteration of the loop.  The
\* transaction of a row is applied or lost; the backend takes no Practitioner
\* whose id is not a valid id (blanks in it).
process_user_backed ==
    /\ flow = "users" /\ pc = "users" /\ idx <= Len(resource_list)
    /\ "accounts" \in DOMAIN aux
    /\ LET user == resource_list[idx]
       IN  \E creply \in backed_create(user) :
           \E lreply \in backed_lookup(user) :
           \E c \in {create_user(user, creply)} :
           \E l \in {confirm_keycloak_user(user, lreply)} :
           \E preply \in backed_practitioner(user, IF c.value # "0" THEN c.value ELSE l.value) :
           \E r \in {user_row(user, creply, lreply, preply)} :
           \E applied \in BOOLEAN :
              /\ requests' = requests \o
                     [k \in DOMAIN r.requests |->
                         [kind |-> r.requests[k].kind, url |-> r.requests[k].url,
                          reply |-> r.requests[k].reply, row |-> idx]]
              /\ exc' = r.exc
              /\ aux' = [aux EXCEPT
                     !.accounts = IF creply.kind = "response" /\ creply.status = 201
                                  THEN @ \cup {n \in stored_names(user) :
                                                  account_of(n) = creply.id}
                                  ELSE @,
                     !.practitioners =
                         IF /\ r.exc = "none" /\ r.outcome = "submitted" /\ applied
                            /\ r.payload.practitioner_uuid = strip(r.payload.practitioner_uuid)
                         THEN @ \cup {[id |-> r.payload.practitioner_uuid,
                                       account |-> r.user_id]}
                         ELSE @]
              /\ IF r.exc = "none"
                 THEN /\ final_string' = Append(final_string,
                                                [outcome |-> r.outcome, user_id |-> r.user_id])
                      /\ idx' = idx + 1
                      /\ pc' = pc
                      /\ posted' = IF r.outcome = "submitted"
                                   THEN Append(posted, [row |-> idx, payload |-> r.payload,
                                                        run |-> aux.run])
                                   ELSE posted
                 ELSE /\ final_string' = final_string
                      /\ idx' = idx
                      /\ pc' = "crashed"
                      /\ posted' = posted
    /\ UNCHANGED <<flow, resource_type, resource_list, unique_uuid,
                   identifier_uuid, version>>

\* main() is run again on the same users csv: a new process, the same row,
\* the stores as the first run left them.
rerun_users ==
    /\ flow = "users" /\ "accounts" \in DOMAIN aux
    /\ aux.run = 1
    /\ \/ pc \in {"done", "crashed"}
       \/ pc = "users" /\ idx > Len(resource_list)
    /\ aux' = [aux EXCEPT !.run = 2, !.first = final_string,
                          !.before = [accounts |-> aux.accounts,
                                      practitioners |-> aux.practitioners]]
    /\ pc' = "users"
    /\ idx' = 1
    /\ final_string' = <<>>
    /\ exc' = "none"
    /\ requests' = <<>>
    /\ UNCHANGED <<flow, resource_type, resource_list, unique_uuid,
                   identifier_uuid, version, posted>>

NextUsersBacked ==
    \/ process_user_backed
    \/ finish_users
    \/ rerun_users

SpecUsersBacked == InitUsersBacked /\ [][NextUsersBacked]_vars

\* The row of the run, the account its lookup asks for, and the Practitioners
\* the first run left that the row's check can find.
rerun_row == resource_list[1]
rerun_account == account_of(strip(rerun_row[3]))
left_linked ==
    IF strip(rerun_row[5]) = ""
    THEN {q \in aux.before.practitioners : q.account = rerun_account}
    ELSE {q \in aux.before.practitioners : q.id = strip(rerun_row[5])}

\* The second run has been through the row and every call of it was answered.
rerun_answered ==
    /\ aux.run = 2
    /\ requests # <<>>
    /\ \A j \in DOMAIN requests : requests[j].reply.kind # "fail"
    /\ pc = "crashed" \/ idx > 1

second_run_posts == {j \in DOMAIN posted : posted[j].run = 2}

C26_WitnessLinked ==
    /\ flow = "users" /\ "before" \in DOMAIN aux
    /\ rerun_answered
    /\ left_linked # {}
    /\ final_string # <<>> /\ final_string[1].outcome = "linked"

\* ------------------------------------------------------------ group of the roles

\* The activations of get_group_id the interpreter allows before it raises
\* RecursionError (sys.getrecursionlimit(), scaled down).
MaxDepth == 3

GroupNames == {"g1", "g2"}
RoleRows == {<<"r1">>, <<"r2">>}

\* The id the identity provider lists for a group.
group_id_of(name) == "id:" \o name

\* What handle_request hands get_group_id for GET /groups: None, or the list
\* of the groups the provider holds.
GroupListReplies(store) == { [kind |-> "fail"], [kind |-> "list", names |-> store] }

\* What the provider does with POST /groups: creates the group, refuses
\* (an answer that get_group_id does not look at), or the request is lost.
GroupCreateReplies == {"created", "refused", "lost"}

\* main() with --setup roles and --group, create_roles done: assign_group_roles
\* is about to call get_group_id.
InitGroups ==
    /\ flow = "groups"
    /\ pc = "get_group_id"
    /\ resource_type = "roles"
    /\ resource_list \in Lists(RoleRows, MaxRows) \ {<<>>}
    /\ idx = 1
    /\ unique_uuid = UNBOUND
    /\ identifier_uuid = UNBOUND
    /\ version = UNBOUND
    /\ final_string = <<>>
    /\ exc = "none"
    /\ requests = <<>>
    /\ posted = <<>>
    /\ \E group \in GroupNames : \E store \in SUBSET GroupNames :
          aux = [group |-> group, store |-> store, listed |-> group \in store,
                 depth |-> 1, group_id |-> UNBOUND]

\* get_group_id, lines 923-944: one activation.  It lists the groups, returns
\* the id of the group when it is listed, and otherwise posts the group and
\* calls itself, whatever the answer to the POST.
get_group_id ==
    /\ flow = "groups" /\ pc = "get_group_id"
    /\ \E reply \in GroupListReplies(aux.store) :
       LET get == [kind |-> "GET", url |-> "/groups", reply |-> reply]
       IN  IF reply.kind = "fail"
           THEN /\ requests' = Append(requests, get)
                /\ exc' = "TypeError" /\ pc' = "crashed"
                /\ aux' = aux
           ELSE IF aux.group \in reply.names
           THEN /\ requests' = Append(requests, get)
                /\ aux' = [aux EXCEPT !.group_id = group_id_of(aux.group)]
                /\ exc' = exc /\ pc' = "assign_group_roles"
           ELSE \E created \in GroupCreateReplies :
                /\ requests' = requests \o
                       <<get, [kind |-> "POST", url |-> "/groups",
                               reply |-> [kind |-> created]]>>
                /\ IF aux.depth >= MaxDepth
                   THEN /\ exc' = "RecursionError" /\ pc' = "crashed"
                        /\ aux' = [aux EXCEPT !.store = IF created = "created"
                                                        THEN @ \cup {aux.group} ELSE @]
                   ELSE /\ exc' = exc /\ pc' = pc
                        /\ aux' = [aux EXCEPT !.depth = @ + 1,
                                              !.store = IF created = "created"
                                                        THEN @ \cup {aux.group} ELSE @]
    /\ UNCHANGED <<flow, resource_type, resource_list, idx, unique_uuid,
                   identifier_uuid, version, final_string, posted>>

\* assign_group_roles, lines 947-978, after get_group_id has returned: the
\* available roles are read and those of the role list are mapped to the group.
assign_group_roles ==
    /\ flow = "groups" /\ pc = "assign_group_roles"
    /\ \E available \in {[kind |-> "fail"]} \cup
            {[kind |-> "list", names |-> R] : R \in SUBSET {r[1] : r \in RoleRows}} :
       LET url == "/groups/" \o aux.group_id \o "/role-mappings/realm"
       IN  IF available.kind = "fail"
           THEN /\ requests' = Append(requests,
                      [kind |-> "GET", url |-> url \o "/available",
                       reply |-> available])
                /\ exc' = "TypeError" /\ pc' = "crashed"
                /\ final_string' = final_string
           ELSE /\ requests' = requests \o
                      <<[kind |-> "GET", url |-> url \o "/available",
                         reply |-> available],
                        [kind |-> "POST", url |-> url, reply |-> [kind |-> "sent"]]>>
                /\ final_string' =
                      LET keep[i \in 0..Len(resource_list)] ==
                              IF i = 0 THEN <<>>
                              ELSE IF resource_list[i][1] \in available.names
                                   THEN Append(keep[i - 1], resource_list[i][1])
                                   ELSE keep[i - 1]
                      IN  keep[Len(resource_list)]
                /\ exc' = exc /\ pc' = "done"
    /\ UNCHANGED <<flow, resource_type, resource_list, idx, unique_uuid,
                   identifier_uuid, version, posted, aux>>

NextGroups ==
    \/ get_group_id
    \/ assign_group_roles

SpecGroups == InitGroups /\ [][NextGroups]_vars

\* The group-creation POSTs sent so far.
group_posts == {j \in DOMAIN requests :
                   requests[j].kind = "POST" /\ requests[j].url = "/groups"}

\* C27: get_group_id comes back after at most one group-creation POST: with
\* the id of the group and no POST when the group was listed, with the id of
\* the new group after one POST when it was not; it never runs out of
\* activations.
C27_AtMostOneCreation ==
    flow = "groups"
    => /\ Cardinality(group_posts) <= 1
       /\ exc # "RecursionError"
       /\ aux.group_id # UNBOUND
            => /\ aux.group_id = group_id_of(aux.group)
               /\ Cardinality(group_posts) = IF aux.listed THEN 0 ELSE 1
====
